---- MODULE Spec2Model ----
(***************************************************************************)
(* primo-chat: the session and document lifecycle coordinator.             *)
(*                                                                         *)
(* The model holds the Record Store (the SQLite tables of database.py),    *)
(* the remote OpenAI service (vector stores, files, assistants, threads)   *)
(* and the handlers of app.py, each run by a caller p.  A caller is one    *)
(* connection of one server process; several server processes may share    *)
(* the organization's database file, so callers interleave at every        *)
(* remote call and every store write of get_or_create_vector_store.       *)
(*                                                                         *)
(* Every store write can fail (sqlite3 raises inside the method's try):    *)
(* the method then commits nothing and returns False.  Every remote call   *)
(* can fail (the client raises).  A run holds MaxFaults failures at most.  *)
(***************************************************************************)
EXTENDS Integers, Sequences, FiniteSets, TLC

\* ---------------------------------------------------------------- bounds
NumProcs == 2
NumChats == 1
MaxTime == 1
MaxFaults == 2
MaxCalls == 3
MaxTokens == 1
MaxDbCalls == 4
MaxTextLen == 8
MaxSmallLength == 6
MaxFragments == 2
MaxTurns == 2
MaxOrgCalls == 3

Procs == 1..NumProcs
\* The callers that are chat connections.
ChatProcs == 1..NumChats
None == 0

\* config.vector_store_name: f"{organization_name}-knowledge-base"
vector_store_name == "default-knowledge-base"
\* config.chat_title_length: CHAT_TITLE_LENGTH, 50 by default
chat_title_length == 50

VARIABLES
    now,              \* CURRENT_TIMESTAMP, in seconds
    faults,           \* number of failures (remote, storage, task) so far
    uuids,            \* number of uuid4 values drawn so far
    r_vector_stores,  \* remote: identifiers of the vector stores that exist
    r_vs_created,     \* remote: number of vector stores ever created
    r_assistants,     \* remote: per assistant, the vector store it searches
    r_threads,        \* remote: per thread, the user texts appended to it
    r_files,          \* remote: identifiers of the files that exist
    r_files_created,  \* remote: number of files ever created
    r_vs_files,       \* remote: <<vector store, file>> registrations
    vector_stores,    \* table vector_stores, in rowid order
    documents,        \* table documents, in rowid order
    chat_sessions,    \* table chat_sessions, in rowid order
    messages,         \* table messages, in id order
    users,            \* table users, in rowid order
    pc,               \* per caller: position in its handler
    op,               \* per caller: the handler it runs, or ran last
    calls,            \* number of handler calls begun so far
    rs,               \* per caller: locals of get_or_create_vector_store
    st,               \* per caller: locals of start
    ctx,              \* per caller: cl.user_session
    turn,             \* per caller: locals of handle_message_content
    up,               \* per caller: locals and report of upload_documents
    del,              \* per caller: argument and result of delete_document
    val,              \* the last validate_file_upload call: arguments and result
    dbc,              \* the last direct call of a Record Store method, and the log
    trunc,            \* the last truncate_text call: arguments and result
    orgs              \* the database files under /data and the stores opened on them

remoteVars == <<r_vector_stores, r_vs_created, r_assistants, r_threads,
                r_files, r_files_created, r_vs_files>>
dbVars == <<vector_stores, documents, chat_sessions, messages, users>>
chatVars == <<st, ctx, turn>>
docVars == <<up, del, val>>
libVars == <<dbc, trunc, orgs>>
vars == <<now, faults, uuids, remoteVars, dbVars, pc, op, calls, rs, chatVars, docVars,
         libVars>>

\* ------------------------------------------------------------ failures
\* One more failure happens in this step.
Fault == faults < MaxFaults /\ faults' = faults + 1

\* The step's operations that did not succeed (ok = FALSE) are failures.
FaultsOf(oks) ==
    LET n == Cardinality({i \in DOMAIN oks : ~oks[i]})
    IN  faults + n <= MaxFaults /\ faults' = faults + n

\* ------------------------------------------------------ Record Store
\* INSERT OR REPLACE INTO vector_stores (vector_store_id, name): the primary
\* key is vector_store_id; a row of the same id is replaced, every other row
\* stays; created_at, document_count and status take their defaults.
create_vector_store(vs, id, t) ==
    Append(SelectSeq(vs, LAMBDA r : r.vector_store_id # id),
           [vector_store_id |-> id, name |-> vector_store_name, created_at |-> t,
            document_count |-> 0, status |-> "active"])

\* SELECT vector_store_id FROM vector_stores WHERE status = 'active'
\* ORDER BY created_at DESC LIMIT 1.  created_at has a resolution of one
\* second and SQL leaves the order of rows with equal created_at open
\* (SQLite 3.40 returns the row inserted first), so the read may return any
\* active row of the greatest created_at.  The empty set stands for None.
get_vector_store(vs) ==
    LET active == {i \in DOMAIN vs : vs[i].status = "active"}
        top == {i \in active : \A j \in active : vs[j].created_at <= vs[i].created_at}
    IN  {vs[i].vector_store_id : i \in top}

StoreIds(vs) == {vs[i].vector_store_id : i \in DOMAIN vs}

\* ------------------------------------------ get_or_create_vector_store
rs0 == [cached |-> None, confirmed |-> FALSE, retrieveFailed |-> FALSE,
        created |-> None, creates |-> 0, result |-> None, raisedBy |-> "none"]

BeginResolve(p) ==
    /\ pc[p] = "idle" /\ calls < MaxCalls
    /\ pc' = [pc EXCEPT ![p] = "rs_read"]
    /\ op' = [op EXCEPT ![p] = "resolve"]
    /\ calls' = calls + 1
    /\ rs' = [rs EXCEPT ![p] = rs0]
    /\ UNCHANGED <<libVars, now, faults, uuids, remoteVars, dbVars, chatVars, docVars>>

\* vector_store_id = self.db.get_vector_store(); if vector_store_id: ...
ResolveReadOk(p) ==
    /\ pc[p] = "rs_read"
    /\ \E v \in (IF get_vector_store(vector_stores) = {} THEN {None}
                 ELSE get_vector_store(vector_stores)) :
          /\ rs' = [rs EXCEPT ![p].cached = v]
          /\ pc' = [pc EXCEPT ![p] = IF v # None THEN "rs_retrieve" ELSE "rs_create"]
    /\ UNCHANGED <<libVars, now, faults, uuids, remoteVars, dbVars, op, calls, chatVars, docVars>>

\* get_vector_store has no try: a storage error leaves the call.
ResolveReadFail(p) ==
    /\ pc[p] = "rs_read"
    /\ rs' = [rs EXCEPT ![p].raisedBy = "read"]
    /\ pc' = [pc EXCEPT ![p] = "rs_raised"]
    /\ Fault
    /\ UNCHANGED <<libVars, now, uuids, remoteVars, dbVars, op, calls, chatVars, docVars>>

\* client.vector_stores.retrieve(vector_store_id) succeeds: return it.
ResolveRetrieveOk_MutCreateAnyway(p) ==
    /\ pc[p] = "rs_retrieve"
    /\ rs[p].cached \in r_vector_stores
    /\ rs' = [rs EXCEPT ![p].confirmed = TRUE]
    /\ pc' = [pc EXCEPT ![p] = "rs_create"]
    /\ UNCHANGED <<libVars, now, faults, uuids, remoteVars, dbVars, op, calls, chatVars, docVars>>

ResolveRetrieveOk(p) ==
    /\ pc[p] = "rs_retrieve"
    /\ rs[p].cached \in r_vector_stores
    /\ rs' = [rs EXCEPT ![p].confirmed = TRUE, ![p].result = rs[p].cached]
    /\ pc' = [pc EXCEPT ![p] = "rs_done"]
    /\ UNCHANGED <<libVars, now, faults, uuids, remoteVars, dbVars, op, calls, chatVars, docVars>>

\* retrieve raises (not found, transient error, timeout): except Exception
\* logs a warning and the code falls through to the creation.
ResolveRetrieveFail_MutPropagate(p) ==
    /\ pc[p] = "rs_retrieve"
    /\ rs' = [rs EXCEPT ![p].retrieveFailed = TRUE, ![p].raisedBy = "retrieve"]
    /\ pc' = [pc EXCEPT ![p] = "rs_raised"]
    /\ Fault
    /\ UNCHANGED <<libVars, now, uuids, remoteVars, dbVars, op, calls, chatVars, docVars>>

\* A resolution that, when retrieve raises, returns the recorded identifier
\* all the same.
ResolveRetrieveFail_MutReturnStale(p) ==
    /\ pc[p] = "rs_retrieve"
    /\ rs' = [rs EXCEPT ![p].retrieveFailed = TRUE, ![p].result = rs[p].cached]
    /\ pc' = [pc EXCEPT ![p] = "rs_done"]
    /\ IF rs[p].cached \in r_vector_stores THEN Fault ELSE UNCHANGED faults
    /\ UNCHANGED <<libVars, now, uuids, remoteVars, dbVars, op, calls, chatVars, docVars>>

ResolveRetrieveFail(p) ==
    /\ pc[p] = "rs_retrieve"
    /\ rs' = [rs EXCEPT ![p].retrieveFailed = TRUE]
    /\ pc' = [pc EXCEPT ![p] = "rs_create"]
    /\ IF rs[p].cached \in r_vector_stores THEN Fault ELSE UNCHANGED faults
    /\ UNCHANGED <<libVars, now, uuids, remoteVars, dbVars, op, calls, chatVars, docVars>>

\* client.vector_stores.create(...) returns a new identifier.
ResolveCreateOk(p) ==
    /\ pc[p] = "rs_create"
    /\ r_vs_created' = r_vs_created + 1
    /\ r_vector_stores' = r_vector_stores \cup {r_vs_created + 1}
    /\ rs' = [rs EXCEPT ![p].created = r_vs_created + 1, ![p].creates = @ + 1]
    /\ pc' = [pc EXCEPT ![p] = "rs_persist"]
    /\ UNCHANGED <<libVars, now, faults, uuids, r_assistants, r_threads, r_files, r_files_created,
                   r_vs_files, dbVars, op, calls, chatVars, docVars>>

\* client.vector_stores.create raises: nothing catches it here.
ResolveCreateFail(p) ==
    /\ pc[p] = "rs_create"
    /\ rs' = [rs EXCEPT ![p].creates = @ + 1, ![p].raisedBy = "create"]
    /\ pc' = [pc EXCEPT ![p] = "rs_raised"]
    /\ Fault
    /\ UNCHANGED <<libVars, now, uuids, remoteVars, dbVars, op, calls, chatVars, docVars>>

\* self.db.create_vector_store(vector_store.id, name); return vector_store.id
ResolvePersistOk(p) ==
    /\ pc[p] = "rs_persist"
    /\ vector_stores' = create_vector_store(vector_stores, rs[p].created, now)
    /\ rs' = [rs EXCEPT ![p].result = rs[p].created]
    /\ pc' = [pc EXCEPT ![p] = "rs_done"]
    /\ UNCHANGED <<libVars, now, faults, uuids, remoteVars, documents, chat_sessions, messages, users,
                   op, calls, chatVars, docVars>>

\* create_vector_store returns False on a storage error; its result is not
\* read and the identifier is returned all the same.
ResolvePersistFail(p) ==
    /\ pc[p] = "rs_persist"
    /\ rs' = [rs EXCEPT ![p].result = rs[p].created]
    /\ pc' = [pc EXCEPT ![p] = "rs_done"]
    /\ Fault
    /\ UNCHANGED <<libVars, now, uuids, remoteVars, dbVars, op, calls, chatVars, docVars>>

\* The caller of a bare resolve takes the result (or the exception).
ResolveFinish(p) ==
    /\ op[p] = "resolve" /\ pc[p] \in {"rs_done", "rs_raised"}
    /\ pc' = [pc EXCEPT ![p] = "idle"]
    /\ rs' = [rs EXCEPT ![p] = rs0]
    /\ UNCHANGED <<libVars, now, faults, uuids, remoteVars, dbVars, op, calls, chatVars, docVars>>

Resolve(p) ==
    \/ ResolveReadOk(p) \/ ResolveReadFail(p)
    \/ ResolveRetrieveOk(p) \/ ResolveRetrieveFail(p)
    \/ ResolveCreateOk(p) \/ ResolveCreateFail(p)
    \/ ResolvePersistOk(p) \/ ResolvePersistFail(p)

\* ---------------------------------------------------------------- text
\* Texts are sequences of characters.  text[:k] of Python.
PySliceTo(text, k) ==
    IF k >= 0 THEN SubSeq(text, 1, IF k < Len(text) THEN k ELSE Len(text))
    ELSE SubSeq(text, 1, IF Len(text) + k > 0 THEN Len(text) + k ELSE 0)

Ellipsis == <<".", ".", ".">>

truncate_text(text, max_length) ==
    IF Len(text) <= max_length THEN text
    ELSE PySliceTo(text, max_length - 3) \o Ellipsis

Rep(ch, n) == [i \in 1..n |-> ch]

\* The title a session is created with, "New Chat".
NewChat == <<"N", "e", "w", " ", "C", "h", "a", "t">>

\* The user texts of the model: one shorter and one longer than the title.
Texts == {Rep("a", 2), Rep("b", chat_title_length + 2)}

\* The text fragments a stream delivers.
Fragments == {<<"x">>, <<"y", "z">>}

\* --------------------------------------------- Record Store: sessions
\* INSERT OR REPLACE INTO chat_sessions (session_id, user_id, thread_id,
\* assistant_id, vector_store_id, title); the other columns default.
create_chat_session(sess, session_id, user_id, thread_id, assistant_id, vector_store_id, title, t) ==
    Append(SelectSeq(sess, LAMBDA r : r.session_id # session_id),
           [session_id |-> session_id, user_id |-> user_id, thread_id |-> thread_id,
            assistant_id |-> assistant_id, vector_store_id |-> vector_store_id,
            created_at |-> t, last_activity |-> t, title |-> title,
            status |-> "active"])

\* UPDATE chat_sessions SET last_activity = CURRENT_TIMESTAMP WHERE session_id = ?
update_session_activity(sess, session_id, t) ==
    [i \in DOMAIN sess |->
        IF session_id # None /\ sess[i].session_id = session_id
        THEN [sess[i] EXCEPT !.last_activity = t] ELSE sess[i]]

\* UPDATE chat_sessions SET title = ? WHERE session_id = ?
update_chat_title(sess, session_id, title) ==
    [i \in DOMAIN sess |->
        IF session_id # None /\ sess[i].session_id = session_id
        THEN [sess[i] EXCEPT !.title = title] ELSE sess[i]]

\* INSERT INTO messages (session_id, role, content, ...): id AUTOINCREMENT.
\* No FOREIGN KEY is enforced (PRAGMA foreign_keys is never set).
insert_message(msgs, session_id, role, content, t) ==
    Append(msgs, [id |-> Len(msgs) + 1, session_id |-> session_id, role |-> role,
                  content |-> content, timestamp |-> t])

\* SELECT COUNT(*) FROM messages WHERE session_id = ?  (NULL matches nothing)
get_message_count(msgs, session_id) ==
    Cardinality({i \in DOMAIN msgs :
                    session_id # None /\ msgs[i].session_id = session_id})

\* INSERT OR REPLACE INTO users (user_id, email, name, preferences, last_login)
create_or_update_user(us, user_id, email, name, t) ==
    Append(SelectSeq(us, LAMBDA r : r.user_id # user_id),
           [user_id |-> user_id, email |-> email, name |-> name,
            created_at |-> t, last_login |-> t])

\* ---------------------------------------------------------------- start
\* The identities the auth collaborator supplies (identifier, email, name).
AuthUsers == {[identifier |-> -1, email |-> "u1@example.org", name |-> "u1"]}

st0 == [user_id |-> None, session_id |-> None]
ctx0 == [connected |-> FALSE, session_id |-> None, user_id |-> None,
         thread_id |-> None, assistant_id |-> None, vector_store_id |-> None]
turn0 == [text |-> <<>>, acc |-> <<>>, relayed |-> <<>>, outcome |-> "none",
          failedAt |-> "none"]

\* on_chat_start of a new connection with no authenticated user:
\* user_id = str(uuid.uuid4()); session_id = str(uuid.uuid4()); then
\* get_or_create_vector_store().
BeginStartAnonymous(p) ==
    /\ pc[p] = "idle" /\ calls < MaxCalls
    /\ uuids' = uuids + 2
    /\ st' = [st EXCEPT ![p] = [user_id |-> uuids + 1, session_id |-> uuids + 2]]
    /\ ctx' = [ctx EXCEPT ![p] = [ctx0 EXCEPT !.connected = TRUE]]
    /\ turn' = [turn EXCEPT ![p] = turn0]
    /\ pc' = [pc EXCEPT ![p] = "rs_read"]
    /\ op' = [op EXCEPT ![p] = "start"]
    /\ calls' = calls + 1
    /\ rs' = [rs EXCEPT ![p] = rs0]
    /\ UNCHANGED <<libVars, now, faults, remoteVars, dbVars, docVars>>

\* on_chat_start with an authenticated user: create_or_update_user (which
\* may fail and return False), then as above.
BeginStartUser(p) ==
    /\ pc[p] = "idle" /\ calls < MaxCalls
    /\ \E user \in AuthUsers, saved \in BOOLEAN :
          /\ users' = IF saved
                      THEN create_or_update_user(users, user.identifier, user.email,
                                                 user.name, now)
                      ELSE users
          /\ st' = [st EXCEPT ![p] = [user_id |-> user.identifier,
                                      session_id |-> uuids + 1]]
          /\ FaultsOf(<<saved>>)
    /\ uuids' = uuids + 1
    /\ ctx' = [ctx EXCEPT ![p] = [ctx0 EXCEPT !.connected = TRUE]]
    /\ turn' = [turn EXCEPT ![p] = turn0]
    /\ pc' = [pc EXCEPT ![p] = "rs_read"]
    /\ op' = [op EXCEPT ![p] = "start"]
    /\ calls' = calls + 1
    /\ rs' = [rs EXCEPT ![p] = rs0]
    /\ UNCHANGED <<libVars, now, remoteVars, vector_stores, documents, chat_sessions,
                   messages, docVars>>

\* get_or_create_vector_store raised: except Exception, nothing is stored in
\* the user session.
StartResolveRaised(p) ==
    /\ op[p] = "start" /\ pc[p] = "rs_raised"
    /\ pc' = [pc EXCEPT ![p] = "idle"]
    /\ rs' = [rs EXCEPT ![p] = rs0]
    /\ UNCHANGED <<libVars, now, faults, uuids, remoteVars, dbVars, op, calls, chatVars, docVars>>

\* create_assistant raises.
StartAssistantFail(p) ==
    /\ op[p] = "start" /\ pc[p] = "rs_done"
    /\ pc' = [pc EXCEPT ![p] = "idle"]
    /\ rs' = [rs EXCEPT ![p] = rs0]
    /\ Fault
    /\ UNCHANGED <<libVars, now, uuids, remoteVars, dbVars, op, calls, chatVars, docVars>>

\* A start that stores each identifier in the user session as soon as it has
\* it and writes the session row before the thread is created.
StartThreadFail_MutSessionFirst(p) ==
    /\ op[p] = "start" /\ pc[p] = "rs_done"
    /\ r_assistants' = Append(r_assistants, rs[p].result)
    /\ chat_sessions' = create_chat_session(chat_sessions, st[p].session_id,
                                            st[p].user_id, None, Len(r_assistants) + 1,
                                            rs[p].result, NewChat, now)
    /\ ctx' = [ctx EXCEPT ![p].session_id = st[p].session_id,
                          ![p].user_id = st[p].user_id,
                          ![p].assistant_id = Len(r_assistants) + 1,
                          ![p].vector_store_id = rs[p].result]
    /\ pc' = [pc EXCEPT ![p] = "idle"]
    /\ rs' = [rs EXCEPT ![p] = rs0]
    /\ Fault
    /\ UNCHANGED <<libVars, now, uuids, r_vector_stores, r_vs_created, r_threads, r_files,
                   r_files_created, r_vs_files, vector_stores, documents, messages,
                   users, op, calls, st, turn, docVars>>

\* create_assistant returns, client.beta.threads.create raises.
StartThreadFail(p) ==
    /\ op[p] = "start" /\ pc[p] = "rs_done"
    /\ r_assistants' = Append(r_assistants, rs[p].result)
    /\ pc' = [pc EXCEPT ![p] = "idle"]
    /\ rs' = [rs EXCEPT ![p] = rs0]
    /\ Fault
    /\ UNCHANGED <<libVars, now, uuids, r_vector_stores, r_vs_created, r_threads, r_files,
                   r_files_created, r_vs_files, dbVars, op, calls, chatVars, docVars>>

\* Assistant and thread are created; create_chat_session writes the row (or
\* fails and returns all the same); the five identifiers go to the session.
StartSession(p) ==
    /\ op[p] = "start" /\ pc[p] = "rs_done"
    /\ r_assistants' = Append(r_assistants, rs[p].result)
    /\ r_threads' = Append(r_threads, <<>>)
    /\ \E saved \in BOOLEAN :
          /\ FaultsOf(<<saved>>)
          /\ chat_sessions' =
                IF saved
                THEN create_chat_session(chat_sessions, st[p].session_id, st[p].user_id,
                                         Len(r_threads) + 1, Len(r_assistants) + 1,
                                         rs[p].result, NewChat, now)
                ELSE chat_sessions
    /\ ctx' = [ctx EXCEPT ![p] =
                 [connected |-> TRUE, session_id |-> st[p].session_id,
                  user_id |-> st[p].user_id, thread_id |-> Len(r_threads) + 1,
                  assistant_id |-> Len(r_assistants) + 1,
                  vector_store_id |-> rs[p].result]]
    /\ pc' = [pc EXCEPT ![p] = "idle"]
    /\ rs' = [rs EXCEPT ![p] = rs0]
    /\ UNCHANGED <<libVars, now, uuids, r_vector_stores, r_vs_created, r_files, r_files_created,
                   r_vs_files, vector_stores, documents, messages, users, op, calls,
                   st, turn, docVars>>

StartBind(p) ==
    \/ StartResolveRaised(p) \/ StartAssistantFail(p)
    \/ StartThreadFail(p) \/ StartSession(p)

\* ------------------------------------------------ handle_message_content
\* if not all([session_id, thread_id, assistant_id])
SessionComplete_MutNoCheck(c) == TRUE

SessionComplete(c) ==
    c.session_id # None /\ c.thread_id # None /\ c.assistant_id # None

\* The identifiers are incomplete: the handler suspends at
\* await cl.Message("Session error. Please refresh the page.").send() ...
TurnSessionError(p) ==
    /\ pc[p] = "idle" /\ ctx[p].connected /\ calls < MaxCalls
    /\ ~SessionComplete(ctx[p])
    /\ turn' = [turn EXCEPT ![p] = [turn0 EXCEPT !.outcome = "session_error"]]
    /\ pc' = [pc EXCEPT ![p] = "session_error"]
    /\ op' = [op EXCEPT ![p] = "turn"]
    /\ calls' = calls + 1
    /\ UNCHANGED <<libVars, now, faults, uuids, remoteVars, dbVars, rs, st, ctx, docVars>>

\* ... and returns.
TurnSessionErrorSent(p) ==
    /\ pc[p] = "session_error"
    /\ pc' = [pc EXCEPT ![p] = "idle"]
    /\ UNCHANGED <<libVars, now, faults, uuids, remoteVars, dbVars, op, calls, rs, chatVars, docVars>>

\* save_message(session_id, "user", content), whose result is not read; then
\* client.beta.threads.messages.create, which appends the text to the thread
\* or raises (except Exception: "Error processing message").  The handler
\* first suspends at response_msg.send(), with the stream about to open.
TurnBegin(p) ==
    /\ pc[p] = "idle" /\ ctx[p].connected /\ calls < MaxCalls
    /\ SessionComplete(ctx[p])
    /\ \E text \in Texts, saved \in BOOLEAN, appended \in BOOLEAN :
          /\ appended => ctx[p].thread_id \in DOMAIN r_threads
          /\ FaultsOf(<<saved, appended \/ ctx[p].thread_id \notin DOMAIN r_threads>>)
          /\ messages' = IF saved
                         THEN insert_message(messages, ctx[p].session_id, "user", text, now)
                         ELSE messages
          /\ chat_sessions' = IF saved
                              THEN update_session_activity(chat_sessions,
                                                           ctx[p].session_id, now)
                              ELSE chat_sessions
          /\ r_threads' = IF appended
                          THEN [r_threads EXCEPT ![ctx[p].thread_id] = Append(@, text)]
                          ELSE r_threads
          /\ turn' = [turn EXCEPT ![p] =
                        [turn0 EXCEPT !.text = text,
                                      !.outcome = IF appended THEN "none" ELSE "error",
                                      !.failedAt = IF appended THEN "none" ELSE "append"]]
          /\ pc' = [pc EXCEPT ![p] = IF appended THEN "streaming" ELSE "idle"]
    /\ op' = [op EXCEPT ![p] = "turn"]
    /\ calls' = calls + 1
    /\ UNCHANGED <<libVars, now, uuids, r_vector_stores, r_vs_created, r_assistants, r_files,
                   r_files_created, r_vs_files, vector_stores, documents, users,
                   rs, st, ctx, docVars>>

\* for text in stream.text_deltas: response_content += text;
\* await response_msg.stream_token(text)
\* An accumulator shared by the handlers (a module-level response_content):
\* a fragment is added to the reply of every turn that is streaming.
StreamTokens_MutShared(p, n) ==
    /\ pc[p] = "streaming" /\ Len(turn[p].relayed) < n
    /\ \E f \in Fragments :
          turn' = [q \in DOMAIN turn |->
                     IF q = p
                     THEN [turn[q] EXCEPT !.acc = @ \o f, !.relayed = Append(@, f)]
                     ELSE IF pc[q] = "streaming"
                     THEN [turn[q] EXCEPT !.acc = @ \o f]
                     ELSE turn[q]]
    /\ UNCHANGED <<libVars, now, faults, uuids, remoteVars, dbVars, pc, op, calls, rs, st, ctx, docVars>>

\* The same, for a stream of at most n fragments.
StreamTokens(p, n) ==
    /\ pc[p] = "streaming" /\ Len(turn[p].relayed) < n
    /\ \E f \in Fragments :
          turn' = [turn EXCEPT ![p].acc = @ \o f, ![p].relayed = Append(@, f)]
    /\ UNCHANGED <<libVars, now, faults, uuids, remoteVars, dbVars, pc, op, calls, rs, st, ctx, docVars>>

StreamToken(p) == StreamTokens(p, MaxTokens)

\* The stream raises (the run fails, the connection drops): except Exception.
StreamFail_MutSavePartial(p) ==
    /\ pc[p] = "streaming"
    /\ messages' = insert_message(messages, ctx[p].session_id, "assistant",
                                  turn[p].acc, now)
    /\ turn' = [turn EXCEPT ![p].outcome = "error", ![p].failedAt = "stream"]
    /\ pc' = [pc EXCEPT ![p] = "idle"]
    /\ Fault
    /\ UNCHANGED <<libVars, now, uuids, remoteVars, vector_stores, documents, chat_sessions,
                   users, op, calls, rs, st, ctx, docVars>>

StreamFail(p) ==
    /\ pc[p] = "streaming"
    /\ turn' = [turn EXCEPT ![p] = [turn0 EXCEPT !.outcome = "error", !.failedAt = "stream"]]
    /\ pc' = [pc EXCEPT ![p] = "idle"]
    /\ Fault
    /\ UNCHANGED <<libVars, now, uuids, remoteVars, dbVars, op, calls, rs, st, ctx, docVars>>

\* The run completes and the loop ends; await response_msg.update().
StreamEnd(p) ==
    /\ pc[p] = "streaming"
    /\ pc' = [pc EXCEPT ![p] = "drained"]
    /\ UNCHANGED <<libVars, now, faults, uuids, remoteVars, dbVars, op, calls, rs, chatVars, docVars>>

\* The consuming task is cancelled at one of its suspension points:
\* CancelledError is no Exception, nothing more of the handler runs.
Abandon(p) ==
    /\ pc[p] \in {"streaming", "drained"}
    /\ turn' = [turn EXCEPT ![p] = [turn0 EXCEPT !.outcome = "abandoned",
                            !.failedAt = IF pc[p] = "streaming" THEN "stream"
                                            ELSE "update"]]
    /\ pc' = [pc EXCEPT ![p] = "idle"]
    /\ Fault
    /\ UNCHANGED <<libVars, now, uuids, remoteVars, dbVars, op, calls, rs, st, ctx, docVars>>

\* save_message(session_id, "assistant", response_content);
\* update_session_activity; message_count = get_message_count (no try: a
\* storage error raises); if message_count == 2: update_chat_title with the
\* truncated text of this turn.  Every write may fail, unnoticed.
TurnFinish(p) ==
    /\ pc[p] = "drained"
    /\ \E saved \in BOOLEAN, touched \in BOOLEAN, counted \in BOOLEAN, titled \in BOOLEAN :
          LET sid == ctx[p].session_id
              m1 == IF saved
                    THEN insert_message(messages, sid, "assistant", turn[p].acc, now)
                    ELSE messages
              s1 == IF saved THEN update_session_activity(chat_sessions, sid, now)
                    ELSE chat_sessions
              s2 == IF touched THEN update_session_activity(s1, sid, now) ELSE s1
              s3 == IF counted /\ titled /\ get_message_count(m1, sid) = 2
                    THEN update_chat_title(s2, sid,
                                           truncate_text(turn[p].text, chat_title_length))
                    ELSE s2
          IN  /\ titled \/ (counted /\ get_message_count(m1, sid) = 2)
              /\ FaultsOf(<<saved, touched, counted, titled>>)
              /\ messages' = m1
              /\ chat_sessions' = s3
              /\ turn' = [turn EXCEPT ![p] =
                            [turn0 EXCEPT !.outcome = IF counted THEN "ok" ELSE "error",
                                          !.failedAt = IF counted THEN "none" ELSE "count"]]
    /\ pc' = [pc EXCEPT ![p] = "idle"]
    /\ UNCHANGED <<libVars, now, uuids, remoteVars, vector_stores, documents, users,
                   op, calls, rs, st, ctx, docVars>>

\* on_chat_start of an anonymous connection from its first statement to
\* its last, every call succeeding: the recorded index is confirmed, or an
\* index is created and recorded; assistant, thread, session row, context.
StartAnonymous(p) ==
    /\ pc[p] = "idle" /\ ~ctx[p].connected
    /\ uuids' = uuids + 2
    /\ \E id \in 1..(r_vs_created + 1) :
          /\ \/ /\ id \in get_vector_store(vector_stores) /\ id \in r_vector_stores
                /\ UNCHANGED <<r_vector_stores, r_vs_created, vector_stores>>
             \/ /\ \A c \in get_vector_store(vector_stores) : c \notin r_vector_stores
                /\ id = r_vs_created + 1
                /\ r_vs_created' = id
                /\ r_vector_stores' = r_vector_stores \cup {id}
                /\ vector_stores' = create_vector_store(vector_stores, id, now)
          /\ r_assistants' = Append(r_assistants, id)
          /\ r_threads' = Append(r_threads, <<>>)
          /\ chat_sessions' = create_chat_session(chat_sessions, uuids + 2, uuids + 1,
                                                  Len(r_threads) + 1, Len(r_assistants) + 1,
                                                  id, NewChat, now)
          /\ ctx' = [ctx EXCEPT ![p] =
                       [connected |-> TRUE, session_id |-> uuids + 2,
                        user_id |-> uuids + 1, thread_id |-> Len(r_threads) + 1,
                        assistant_id |-> Len(r_assistants) + 1,
                        vector_store_id |-> id]]
    /\ st' = [st EXCEPT ![p] = [user_id |-> uuids + 1, session_id |-> uuids + 2]]
    /\ turn' = [turn EXCEPT ![p] = turn0]
    /\ op' = [op EXCEPT ![p] = "start"]
    /\ UNCHANGED <<libVars, now, faults, r_files, r_files_created, r_vs_files, documents,
                   messages, users, pc, calls, rs, docVars>>

\* The turns of a session whose replies come in up to MaxFragments
\* fragments; MaxTurns turns are begun at most.
LongTurn(p) ==
    \/ (calls < MaxTurns /\ TurnBegin(p))
    \/ StreamTokens(p, MaxFragments) \/ StreamFail(p)
    \/ StreamEnd(p) \/ Abandon(p) \/ TurnFinish(p)

Turn(p) ==
    \/ TurnSessionError(p) \/ TurnSessionErrorSent(p) \/ TurnBegin(p)
    \/ StreamToken(p) \/ StreamFail(p)
    \/ StreamEnd(p) \/ Abandon(p) \/ TurnFinish(p)

\* ---------------------------------------------------- config: files
max_file_size_mb == 20
MaxBytes == max_file_size_mb * 1024 * 1024

\* Names are sequences of characters; the allow-list of extensions.
allowed_file_types ==
    {<<"p", "d", "f">>, <<"t", "x", "t">>, <<"m", "d">>, <<"d", "o", "c", "x">>,
     <<"d", "o", "c">>, <<"r", "t", "f">>, <<"h", "t", "m", "l">>,
     <<"j", "s", "o", "n">>, <<"c", "s", "v">>, <<"x", "m", "l">>}

\* str.lower() on the letters the names of the model are written with.
lower_char(c) ==
    CASE c = "P" -> "p" [] c = "D" -> "d" [] c = "F" -> "f"
      [] c = "T" -> "t" [] c = "X" -> "x" [] c = "E" -> "e"
      [] OTHER -> c

lower(name) == [i \in DOMAIN name |-> lower_char(name[i])]

\* filename.lower().split('.')[-1] if '.' in filename else ''
file_extension_MutFirstDot(filename) ==
    LET dots == {i \in DOMAIN filename : filename[i] = "."}
    IN  IF dots = {} THEN <<>>
        ELSE LET first == CHOOSE i \in dots : \A j \in dots : i <= j
             IN  SubSeq(lower(filename), first + 1, Len(filename))

file_extension(filename) ==
    LET dots == {i \in DOMAIN filename : filename[i] = "."}
    IN  IF dots = {} THEN <<>>
        ELSE LET last == CHOOSE i \in dots : \A j \in dots : j <= i
             IN  SubSeq(lower(filename), last + 1, Len(filename))

\* validate_file_upload: the size first, then the type.
validate_file_upload_MutGe(filename, file_size) ==
    IF file_size >= MaxBytes THEN [ok |-> FALSE, reason |-> "size"]
    ELSE IF file_extension(filename) \notin allowed_file_types
         THEN [ok |-> FALSE, reason |-> "type"]
         ELSE [ok |-> TRUE, reason |-> "valid"]

validate_file_upload(filename, file_size) ==
    IF file_size > MaxBytes THEN [ok |-> FALSE, reason |-> "size"]
    ELSE IF file_extension(filename) \notin allowed_file_types
         THEN [ok |-> FALSE, reason |-> "type"]
         ELSE [ok |-> TRUE, reason |-> "valid"]

\* ------------------------------------------- Record Store: documents
\* UPDATE vector_stores SET document_count = document_count + d
\* WHERE vector_store_id = ?
AddToDocumentCount(vs, id, d) ==
    [i \in DOMAIN vs |->
        IF vs[i].vector_store_id = id
        THEN [vs[i] EXCEPT !.document_count = @ + d] ELSE vs[i]]

\* An add written as INSERT OR REPLACE: a row of the same id gives way to
\* the new one.
add_document_MutReplace(docs, vs, filename, openai_file_id, vector_store_id, file_size, uploaded_by, t) ==
    [documents |->
         Append(SelectSeq(docs, LAMBDA d : d.id # openai_file_id),
                [id |-> openai_file_id, filename |-> filename,
                 openai_file_id |-> openai_file_id,
                 vector_store_id |-> vector_store_id, upload_date |-> t,
                 file_size |-> file_size, status |-> "active",
                 uploaded_by |-> uploaded_by]),
     vector_stores |-> AddToDocumentCount(vs, vector_store_id, 1),
     ok |-> TRUE]

\* add_document: INSERT INTO documents with id = openai_file_id (PRIMARY
\* KEY: a second row of the same id raises, caught, nothing is written),
\* then the count of the index, in one transaction.
add_document(docs, vs, filename, openai_file_id, vector_store_id, file_size, uploaded_by, t) ==
    IF \E i \in DOMAIN docs : docs[i].id = openai_file_id
    THEN [documents |-> docs, vector_stores |-> vs, ok |-> FALSE]
    ELSE [documents |->
              Append(docs, [id |-> openai_file_id, filename |-> filename,
                            openai_file_id |-> openai_file_id,
                            vector_store_id |-> vector_store_id, upload_date |-> t,
                            file_size |-> file_size, status |-> "active",
                            uploaded_by |-> uploaded_by]),
          vector_stores |-> AddToDocumentCount(vs, vector_store_id, 1),
          ok |-> TRUE]

\* delete_document of the store: the row's status becomes 'deleted'; when a
\* row of that file id exists (whatever its status) the count of its index
\* goes down by one.
delete_document(docs, vs, file_id) ==
    LET found == {i \in DOMAIN docs : docs[i].openai_file_id = file_id}
    IN  [documents |->
             [i \in DOMAIN docs |->
                 IF i \in found THEN [docs[i] EXCEPT !.status = "deleted"] ELSE docs[i]],
         vector_stores |->
             IF found = {} THEN vs
             ELSE AddToDocumentCount(vs, docs[CHOOSE i \in found : TRUE].vector_store_id,
                                     -1),
         ok |-> TRUE]

\* list_documents: the active rows, ORDER BY upload_date DESC.  Rows of the
\* same second come in an order the query does not fix: the set of the
\* results the query may give, each a sequence of (filename, id, size).
list_documents(docs) ==
    LET act == SelectSeq(docs, LAMBDA d : d.status = "active")
        n == Len(act)
        orders == {f \in [1..n -> 1..n] :
                      /\ \A i, j \in 1..n : i # j => f[i] # f[j]
                      /\ \A i, j \in 1..n :
                            i < j => act[f[i]].upload_date >= act[f[j]].upload_date}
    IN  {[k \in 1..n |-> [filename |-> act[f[k]].filename, id |-> act[f[k]].openai_file_id,
                          upload_date |-> act[f[k]].upload_date,
                          size |-> act[f[k]].file_size]] : f \in orders}

\* SELECT COUNT(*) FROM documents WHERE status = 'active'
get_document_count(docs) ==
    Cardinality({i \in DOMAIN docs : docs[i].status = "active"})

\* ---------------------------------------------------- upload_documents
\* The files a caller submits: a name, a byte length, and whether the
\* element carries its content, a path to read, or neither.
GoodFile == [name |-> <<"r", ".", "P", "D", "F">>, size |-> 5, has |-> "path"]
TypeFile == [name |-> <<"x", ".", "e", "x", "e">>, size |-> 5, has |-> "content"]
BigFile == [name |-> <<"b", ".", "t", "x", "t">>, size |-> MaxBytes + 1, has |-> "path"]
EmptyFile == [name |-> <<"n", ".", "m", "d">>, size |-> 0, has |-> "path"]
BareFile == [name |-> <<"u">>, size |-> 5, has |-> "none"]

Batches ==
    {<<>>, <<GoodFile>>, <<TypeFile, GoodFile>>, <<BigFile>>,
     <<EmptyFile, BareFile>>, <<GoodFile, GoodFile>>}

report0 == [kind |-> "none", success |-> FALSE, total_files |-> 0,
            successful_uploads |-> 0]
up0 == [files |-> <<>>, i |-> 1, user_id |-> None, uploaded_files |-> <<>>,
        errors |-> <<>>, report |-> report0, call |-> 0]
val0 == [filename |-> <<>>, file_size |-> 0,
         verdict |-> [ok |-> FALSE, reason |-> "none"]]
del0 == [file_id |-> None, result |-> FALSE, call |-> 0]

\* if not files: return {"success": False, "message": "No files provided"}
UploadNoFiles_MutResolve(p) ==
    /\ pc[p] = "idle" /\ calls < MaxCalls
    /\ up' = [up EXCEPT ![p] = [up0 EXCEPT !.user_id = ctx[p].user_id,
                                          !.call = calls + 1]]
    /\ pc' = [pc EXCEPT ![p] = "rs_read"]
    /\ op' = [op EXCEPT ![p] = "upload"]
    /\ rs' = [rs EXCEPT ![p] = rs0]
    /\ calls' = calls + 1
    /\ UNCHANGED <<libVars, now, faults, uuids, remoteVars, dbVars, chatVars, del, val>>

UploadNoFiles(p) ==
    /\ pc[p] = "idle" /\ calls < MaxCalls
    /\ up' = [up EXCEPT ![p] = [up0 EXCEPT !.user_id = ctx[p].user_id,
                                          !.call = calls + 1,
                                          !.report = [report0 EXCEPT !.kind = "no_files"]]]
    /\ op' = [op EXCEPT ![p] = "upload"]
    /\ calls' = calls + 1
    /\ UNCHANGED <<libVars, now, faults, uuids, remoteVars, dbVars, pc, rs, chatVars, del, val>>

\* A batch with files: vector_store_id = await get_or_create_vector_store()
BeginUpload(p) ==
    /\ pc[p] = "idle" /\ calls < MaxCalls
    /\ \E files \in Batches \ {<<>>} :
          up' = [up EXCEPT ![p] = [up0 EXCEPT !.files = files,
                                              !.call = calls + 1,
                                              !.user_id = ctx[p].user_id]]
    /\ pc' = [pc EXCEPT ![p] = "rs_read"]
    /\ op' = [op EXCEPT ![p] = "upload"]
    /\ rs' = [rs EXCEPT ![p] = rs0]
    /\ calls' = calls + 1
    /\ UNCHANGED <<libVars, now, faults, uuids, remoteVars, dbVars, chatVars, del, val>>

\* get_or_create_vector_store raised: the call is outside the try of the
\* loop, the exception leaves upload_documents.
UploadResolveRaised(p) ==
    /\ op[p] = "upload" /\ pc[p] = "rs_raised"
    /\ up' = [up EXCEPT ![p].report = [report0 EXCEPT !.kind = "raised"]]
    /\ pc' = [pc EXCEPT ![p] = "idle"]
    /\ rs' = [rs EXCEPT ![p] = rs0]
    /\ UNCHANGED <<libVars, now, faults, uuids, remoteVars, dbVars, op, calls, chatVars, del, val>>

\* The file the loop is at, and the loop's "errors.append(...); continue".
UploadCurrent(p) == up[p].files[up[p].i]
UploadError(p, reason) ==
    up' = [up EXCEPT ![p].i = @ + 1,
                     ![p].errors = Append(@, [filename |-> UploadCurrent(p).name,
                                              reason |-> reason])]
\* A loop without the check of the empty content.
UploadSendable_MutNoEmptyCheck(f) ==
    f.has # "none" /\ validate_file_upload(f.name, f.size).ok

UploadSendable(f) ==
    f.has # "none" /\ f.size # 0 /\ validate_file_upload(f.name, f.size).ok

\* An iteration that ends before any remote call: no content or path, an
\* empty content, or a failed validation.
UploadReject(p) ==
    /\ op[p] = "upload" /\ pc[p] = "rs_done" /\ up[p].i <= Len(up[p].files)
    /\ ~UploadSendable(UploadCurrent(p))
    /\ UploadError(p, IF UploadCurrent(p).has = "none" THEN "no_content"
                      ELSE IF UploadCurrent(p).size = 0 THEN "empty"
                      ELSE validate_file_upload(UploadCurrent(p).name,
                                                UploadCurrent(p).size).reason)
    /\ UNCHANGED <<libVars, now, faults, uuids, remoteVars, dbVars, pc, op, calls, rs, chatVars, del, val>>

\* client.files.create raises.
UploadCreateFail_MutAbortBatch(p) ==
    /\ op[p] = "upload" /\ pc[p] = "rs_done" /\ up[p].i <= Len(up[p].files)
    /\ UploadSendable(UploadCurrent(p))
    /\ Fault
    /\ up' = [up EXCEPT ![p].i = Len(up[p].files) + 1,
                        ![p].errors = Append(@, [filename |-> UploadCurrent(p).name,
                                                 reason |-> "remote_upload"])]
    /\ UNCHANGED <<libVars, now, uuids, remoteVars, dbVars, pc, op, calls, rs, chatVars, del, val>>

UploadCreateFail(p) ==
    /\ op[p] = "upload" /\ pc[p] = "rs_done" /\ up[p].i <= Len(up[p].files)
    /\ UploadSendable(UploadCurrent(p))
    /\ Fault
    /\ UploadError(p, "remote_upload")
    /\ UNCHANGED <<libVars, now, uuids, remoteVars, dbVars, pc, op, calls, rs, chatVars, del, val>>

\* client.files.create returns a file, vector_stores.files.create_and_poll
\* raises (always when the index is gone).
UploadRegisterFail(p) ==
    /\ op[p] = "upload" /\ pc[p] = "rs_done" /\ up[p].i <= Len(up[p].files)
    /\ UploadSendable(UploadCurrent(p))
    /\ IF rs[p].result \in r_vector_stores THEN Fault ELSE UNCHANGED faults
    /\ r_files_created' = r_files_created + 1
    /\ r_files' = r_files \cup {r_files_created + 1}
    /\ UploadError(p, "remote_register")
    /\ UNCHANGED <<libVars, now, uuids, r_vector_stores, r_vs_created, r_assistants, r_threads,
                   r_vs_files, dbVars, pc, op, calls, rs, chatVars, del, val>>

\* A loop that reads the result of db.add_document and, when the write failed,
\* appends an error as well as the success entry.
UploadStore_MutErrorToo(p) ==
    /\ op[p] = "upload" /\ pc[p] = "rs_done" /\ up[p].i <= Len(up[p].files)
    /\ UploadSendable(UploadCurrent(p))
    /\ rs[p].result \in r_vector_stores
    /\ r_files_created' = r_files_created + 1
    /\ r_files' = r_files \cup {r_files_created + 1}
    /\ r_vs_files' = r_vs_files \cup {<<rs[p].result, r_files_created + 1>>}
    /\ \E recorded \in BOOLEAN :
          LET f == UploadCurrent(p)
              w == add_document(documents, vector_stores, f.name, r_files_created + 1,
                                rs[p].result, f.size, up[p].user_id, now)
          IN  /\ FaultsOf(<<recorded>>)
              /\ documents' = IF recorded THEN w.documents ELSE documents
              /\ vector_stores' = IF recorded THEN w.vector_stores ELSE vector_stores
              /\ up' = [up EXCEPT ![p].i = @ + 1,
                                  ![p].uploaded_files =
                                      Append(@, [filename |-> f.name,
                                                 id |-> r_files_created + 1,
                                                 size |-> f.size]),
                                  ![p].errors =
                                      IF recorded THEN @
                                      ELSE Append(@, [filename |-> f.name,
                                                      reason |-> "record"])]
    /\ UNCHANGED <<libVars, now, uuids, r_vector_stores, r_vs_created, r_assistants, r_threads,
                   chat_sessions, messages, users, pc, op, calls, rs, chatVars, del, val>>

\* Both remote calls return; db.add_document, whose result is not read; the
\* file is appended to uploaded_files.
UploadStore(p) ==
    /\ op[p] = "upload" /\ pc[p] = "rs_done" /\ up[p].i <= Len(up[p].files)
    /\ UploadSendable(UploadCurrent(p))
    /\ rs[p].result \in r_vector_stores
    /\ r_files_created' = r_files_created + 1
    /\ r_files' = r_files \cup {r_files_created + 1}
    /\ r_vs_files' = r_vs_files \cup {<<rs[p].result, r_files_created + 1>>}
    /\ \E recorded \in BOOLEAN :
          LET f == UploadCurrent(p)
              w == add_document(documents, vector_stores, f.name, r_files_created + 1,
                                rs[p].result, f.size, up[p].user_id, now)
          IN  /\ FaultsOf(<<recorded>>)
              /\ documents' = IF recorded THEN w.documents ELSE documents
              /\ vector_stores' = IF recorded THEN w.vector_stores ELSE vector_stores
              /\ up' = [up EXCEPT ![p].i = @ + 1,
                                  ![p].uploaded_files =
                                      Append(@, [filename |-> f.name,
                                                 id |-> r_files_created + 1,
                                                 size |-> f.size])]
    /\ UNCHANGED <<libVars, now, uuids, r_vector_stores, r_vs_created, r_assistants, r_threads,
                   chat_sessions, messages, users, pc, op, calls, rs, chatVars, del, val>>

\* The loop is over: the report.
UploadReturn_MutSuccessNoErrors(p) ==
    /\ op[p] = "upload" /\ pc[p] = "rs_done" /\ up[p].i > Len(up[p].files)
    /\ up' = [up EXCEPT ![p].report =
                 [kind |-> "report", success |-> Len(up[p].errors) = 0,
                  total_files |-> Len(up[p].files),
                  successful_uploads |-> Len(up[p].uploaded_files)]]
    /\ pc' = [pc EXCEPT ![p] = "idle"]
    /\ rs' = [rs EXCEPT ![p] = rs0]
    /\ UNCHANGED <<libVars, now, faults, uuids, remoteVars, dbVars, op, calls, chatVars, del, val>>

UploadReturn(p) ==
    /\ op[p] = "upload" /\ pc[p] = "rs_done" /\ up[p].i > Len(up[p].files)
    /\ up' = [up EXCEPT ![p].report =
                 [kind |-> "report", success |-> Len(up[p].uploaded_files) > 0,
                  total_files |-> Len(up[p].files),
                  successful_uploads |-> Len(up[p].uploaded_files)]]
    /\ pc' = [pc EXCEPT ![p] = "idle"]
    /\ rs' = [rs EXCEPT ![p] = rs0]
    /\ UNCHANGED <<libVars, now, faults, uuids, remoteVars, dbVars, op, calls, chatVars, del, val>>

Upload(p) ==
    \/ UploadNoFiles(p) \/ BeginUpload(p) \/ UploadResolveRaised(p)
    \/ UploadReject(p) \/ UploadCreateFail(p) \/ UploadRegisterFail(p)
    \/ UploadStore(p) \/ UploadReturn(p)

\* --------------------------------------------- validate_file_upload
\* The names and byte lengths validate_file_upload is called with.
FileNames ==
    {GoodFile.name, TypeFile.name, BigFile.name, EmptyFile.name, BareFile.name,
     <<"a", ".", "b", ".", "P", "D", "F">>,
     <<"x", ".", "p", "d", "f", ".", "e", "x", "e">>,
     <<".", "m", "d">>, <<"r", ".">>, <<"p", "d", "f">>,
     <<"d", ".", "T", "x", "t">>, <<"t", ".", "d", "o", "c", "x">>,
     <<"e", ".", "E", "X", "E">>, <<"p", ".", "p", "d", "f", "x">>}

FileSizes ==
    {0, 1, 5, 1024, MaxBytes - 1, MaxBytes, MaxBytes + 1, MaxBytes + 1024,
     2 * MaxBytes}

\* A validation that looks at the Record Store: it turns every file away
\* once a document is stored.
ValidateCall_MutQuota(names, sizes) ==
    /\ \E filename \in names, file_size \in sizes :
          val' = [filename |-> filename, file_size |-> file_size,
                  verdict |-> IF get_document_count(documents) > 0
                              THEN [ok |-> FALSE, reason |-> "size"]
                              ELSE validate_file_upload(filename, file_size)]
    /\ UNCHANGED <<libVars, now, faults, uuids, remoteVars, dbVars, pc, op, calls, rs,
                   chatVars, up, del>>

\* A call of validate_file_upload(filename, file_size) with arguments of
\* the given sets: it reads the configuration and its arguments, and
\* returns its verdict.
ValidateCall(names, sizes) ==
    /\ \E filename \in names, file_size \in sizes :
          val' = [filename |-> filename, file_size |-> file_size,
                  verdict |-> validate_file_upload(filename, file_size)]
    /\ UNCHANGED <<libVars, now, faults, uuids, remoteVars, dbVars, pc, op, calls, rs,
                   chatVars, up, del>>

Validate == ValidateCall(FileNames, FileSizes)

\* The arguments of the calls made between other operations.
PureNames == {GoodFile.name, TypeFile.name}
PureSizes == {GoodFile.size, MaxBytes + 1}

\* ------------------------------------------- RAGAssistant.delete_document
\* The identifiers a caller may ask to delete: those the remote service has
\* given out, and one it has not.
FileIds == 1..(r_files_created + 1)

\* client.files.delete(file_id) raises (always for a file the service does
\* not hold): except Exception, return False.
DeleteRemoteFail_MutLocalFirst(p) ==
    /\ pc[p] = "idle" /\ calls < MaxCalls
    /\ \E f \in FileIds :
          /\ IF f \in r_files THEN Fault ELSE UNCHANGED faults
          /\ documents' = delete_document(documents, vector_stores, f).documents
          /\ vector_stores' = delete_document(documents, vector_stores, f).vector_stores
          /\ del' = [del EXCEPT ![p] = [file_id |-> f, result |-> FALSE,
                                        call |-> calls + 1]]
    /\ op' = [op EXCEPT ![p] = "delete"]
    /\ calls' = calls + 1
    /\ UNCHANGED <<libVars, now, uuids, remoteVars, chat_sessions, messages, users, pc, rs,
                   chatVars, up, val>>

DeleteRemoteFail(p) ==
    /\ pc[p] = "idle" /\ calls < MaxCalls
    /\ \E f \in FileIds :
          /\ IF f \in r_files THEN Fault ELSE UNCHANGED faults
          /\ del' = [del EXCEPT ![p] = [file_id |-> f, result |-> FALSE,
                                        call |-> calls + 1]]
    /\ op' = [op EXCEPT ![p] = "delete"]
    /\ calls' = calls + 1
    /\ UNCHANGED <<libVars, now, uuids, remoteVars, dbVars, pc, rs, chatVars, up, val>>

\* client.files.delete(file_id) returns (the file leaves the service and
\* the indexes it was in); self.db.delete_document(file_id), whose result is
\* not read; return True.
DeleteDocument(p) ==
    /\ pc[p] = "idle" /\ calls < MaxCalls
    /\ \E f \in r_files, marked \in BOOLEAN :
          LET w == delete_document(documents, vector_stores, f)
          IN  /\ FaultsOf(<<marked>>)
              /\ r_files' = r_files \ {f}
              /\ r_vs_files' = {e \in r_vs_files : e[2] # f}
              /\ documents' = IF marked THEN w.documents ELSE documents
              /\ vector_stores' = IF marked THEN w.vector_stores ELSE vector_stores
              /\ del' = [del EXCEPT ![p] = [file_id |-> f, result |-> TRUE,
                                            call |-> calls + 1]]
    /\ op' = [op EXCEPT ![p] = "delete"]
    /\ calls' = calls + 1
    /\ UNCHANGED <<libVars, now, uuids, r_vector_stores, r_vs_created, r_assistants, r_threads,
                   r_files_created, chat_sessions, messages, users, pc, rs,
                   chatVars, up, val>>

Delete(p) == DeleteRemoteFail(p) \/ DeleteDocument(p)

\* ------------------------------------- Record Store: calls of its methods
\* What a method hands back to its caller, as far as a caller can tell
\* results apart: the Python type and the truth value.
PyTrue == [type |-> "bool", truthy |-> TRUE]
PyFalse == [type |-> "bool", truthy |-> FALSE]
PyNone == [type |-> "NoneType", truthy |-> FALSE]
PyStr(text) == [type |-> "str", truthy |-> text # None]
PyBool(b) == IF b THEN PyTrue ELSE PyFalse

\* The last call of a Record Store method made from outside the handlers
\* (as test_database does), and which methods were called so far, with and
\* without a failure of the storage.
dbc0 == [n |-> 0, method |-> "none", key |-> None, failed |-> FALSE,
         raised |-> FALSE, result |-> PyNone, called |-> {}]
trunc0 == [text |-> <<>>, max_length |-> 0, result |-> <<>>]

\* The keys the callers of the model pass.
StoreKeys == 1..2
DocKeys == 1..2
SessionKeys == 1..2

\* The bookkeeping of one call: its number, its arguments' key, whether the
\* storage failed under it, whether it raised, and what it returned.
DbCall(method, key, failed, injected, result) ==
    /\ calls < MaxDbCalls
    /\ calls' = calls + 1
    /\ FaultsOf(<<~injected>>)
    /\ dbc' = [n |-> calls + 1, method |-> method, key |-> key, failed |-> failed,
               raised |-> FALSE, result |-> result,
               called |-> dbc.called \cup {[method |-> method, failed |-> failed]}]

\* save_message: INSERT INTO messages, then UPDATE chat_sessions SET
\* last_activity, then one conn.commit().  failAt names the statement that
\* raises ("none": the call goes through).  Whatever raised, the except
\* branch returns False and the connection is dropped uncommitted, which
\* rolls its transaction back.
SaveFailPoints == {"none", "insert", "touch", "commit"}

\* A save that commits after each statement: a failure of the touch leaves
\* the inserted message behind.
save_message_MutCommitEach(msgs, sess, session_id, role, content, t, failAt) ==
    IF failAt = "none"
    THEN [messages |-> insert_message(msgs, session_id, role, content, t),
          chat_sessions |-> update_session_activity(sess, session_id, t),
          ok |-> TRUE]
    ELSE IF failAt = "insert"
    THEN [messages |-> msgs, chat_sessions |-> sess, ok |-> FALSE]
    ELSE [messages |-> insert_message(msgs, session_id, role, content, t),
          chat_sessions |-> sess, ok |-> FALSE]

save_message(msgs, sess, session_id, role, content, t, failAt) ==
    IF failAt = "none"
    THEN [messages |-> insert_message(msgs, session_id, role, content, t),
          chat_sessions |-> update_session_activity(sess, session_id, t),
          ok |-> TRUE]
    ELSE [messages |-> msgs, chat_sessions |-> sess, ok |-> FALSE]

\* get_chat_history(session_id): the rows of the session, ORDER BY timestamp
\* ASC LIMIT 50.  timestamp has a resolution of one second and the query
\* names no second key, so SQL leaves the order of the rows of one second
\* open: the set of the results the query may give.
history_limit == 50

get_chat_history(msgs, session_id) ==
    LET rows == SelectSeq(msgs, LAMBDA m : session_id # None /\ m.session_id = session_id)
        n == Len(rows)
        orders == {f \in [1..n -> 1..n] :
                      /\ \A i, j \in 1..n : i # j => f[i] # f[j]
                      /\ \A i, j \in 1..n :
                            i < j => rows[f[i]].timestamp <= rows[f[j]].timestamp}
    IN  {PySliceTo([k \in 1..n |-> rows[f[k]]], history_limit) : f \in orders}

\* list_chat_sessions(): the active rows, ORDER BY last_activity DESC
\* LIMIT 50.  Rows of the same second come in an order the query does not
\* fix: the set of the results the query may give.
\* A listing ordered by the second of creation instead.
list_chat_sessions_MutByCreation(sess) ==
    LET act == SelectSeq(sess, LAMBDA r : r.status = "active")
        n == Len(act)
        orders == {f \in [1..n -> 1..n] :
                      /\ \A i, j \in 1..n : i # j => f[i] # f[j]
                      /\ \A i, j \in 1..n :
                            i < j => act[f[i]].created_at >= act[f[j]].created_at}
    IN  {[k \in 1..n |-> [session_id |-> act[f[k]].session_id,
                          title |-> act[f[k]].title,
                          created_at |-> act[f[k]].created_at,
                          last_activity |-> act[f[k]].last_activity]] : f \in orders}

list_chat_sessions(sess) ==
    LET act == SelectSeq(sess, LAMBDA r : r.status = "active")
        n == Len(act)
        orders == {f \in [1..n -> 1..n] :
                      /\ \A i, j \in 1..n : i # j => f[i] # f[j]
                      /\ \A i, j \in 1..n :
                            i < j => act[f[i]].last_activity >= act[f[j]].last_activity}
    IN  {[k \in 1..n |-> [session_id |-> act[f[k]].session_id,
                          title |-> act[f[k]].title,
                          created_at |-> act[f[k]].created_at,
                          last_activity |-> act[f[k]].last_activity]] : f \in orders}

\* get_stats(): five COUNT(*) queries.  status = "active" is written with
\* double quotes; no column is named active, so SQLite reads it as the
\* string 'active'.
SecondsOfDay == 86400

\* Counts that take every row, whatever its status.
get_stats_MutAllRows(docs, sess, msgs, us, t) ==
    [documents |-> Len(docs),
     sessions |-> Len(sess),
     messages |-> Len(msgs),
     users |-> Len(us),
     messages_24h |-> Cardinality({i \in DOMAIN msgs :
                                      msgs[i].timestamp >= t - SecondsOfDay})]

get_stats(docs, sess, msgs, us, t) ==
    [documents |-> Cardinality({i \in DOMAIN docs : docs[i].status = "active"}),
     sessions |-> Cardinality({i \in DOMAIN sess : sess[i].status = "active"}),
     messages |-> Len(msgs),
     users |-> Len(us),
     messages_24h |-> Cardinality({i \in DOMAIN msgs :
                                      msgs[i].timestamp >= t - SecondsOfDay})]

DbCreateVectorStore ==
    \E id \in StoreKeys, failed \in BOOLEAN :
        /\ vector_stores' = IF failed THEN vector_stores
                            ELSE create_vector_store(vector_stores, id, now)
        /\ DbCall("create_vector_store", id, failed, failed, PyBool(~failed))
        /\ UNCHANGED <<now, uuids, remoteVars, documents, chat_sessions, messages,
                       users, pc, op, rs, chatVars, docVars, trunc, orgs>>

DbAddDocument ==
    \E id \in DocKeys, vsid \in StoreKeys, failed \in BOOLEAN :
        LET r == add_document(documents, vector_stores, GoodFile.name, id, vsid,
                              GoodFile.size, None, now)
        IN  /\ documents' = IF failed THEN documents ELSE r.documents
            /\ vector_stores' = IF failed THEN vector_stores ELSE r.vector_stores
            /\ DbCall("add_document", id, failed \/ ~r.ok, failed,
                      PyBool(~failed /\ r.ok))
            /\ UNCHANGED <<now, uuids, remoteVars, chat_sessions, messages, users,
                           pc, op, rs, chatVars, docVars, trunc, orgs>>

DbDeleteDocument ==
    \E id \in DocKeys, failed \in BOOLEAN :
        LET r == delete_document(documents, vector_stores, id)
        IN  /\ documents' = IF failed THEN documents ELSE r.documents
            /\ vector_stores' = IF failed THEN vector_stores ELSE r.vector_stores
            /\ DbCall("delete_document", id, failed, failed, PyBool(~failed /\ r.ok))
            /\ UNCHANGED <<now, uuids, remoteVars, chat_sessions, messages, users,
                           pc, op, rs, chatVars, docVars, trunc, orgs>>

\* create_chat_session returns session_id from its try and from its except
\* branch alike.
DbCreateChatSession ==
    \E sid \in SessionKeys, user \in AuthUsers, failed \in BOOLEAN :
        /\ chat_sessions' = IF failed THEN chat_sessions
                            ELSE create_chat_session(chat_sessions, sid, user.identifier,
                                                     None, None, None, NewChat, now)
        /\ DbCall("create_chat_session", sid, failed, failed, PyStr(sid))
        /\ UNCHANGED <<now, uuids, remoteVars, vector_stores, documents, messages,
                       users, pc, op, rs, chatVars, docVars, trunc, orgs>>

DbSaveMessage ==
    \E sid \in SessionKeys, failAt \in SaveFailPoints :
        LET r == save_message(messages, chat_sessions, sid, "user", Rep("a", 2), now,
                              failAt)
        IN  /\ messages' = r.messages
            /\ chat_sessions' = r.chat_sessions
            /\ DbCall("save_message", sid, failAt # "none", failAt # "none",
                      PyBool(r.ok))
            /\ UNCHANGED <<now, uuids, remoteVars, vector_stores, documents, users,
                           pc, op, rs, chatVars, docVars, trunc, orgs>>

\* update_session_activity and update_chat_title have no return statement:
\* the caller gets None from the try and from the except branch alike.
DbUpdateSessionActivity ==
    \E sid \in SessionKeys, failed \in BOOLEAN :
        /\ chat_sessions' = IF failed THEN chat_sessions
                            ELSE update_session_activity(chat_sessions, sid, now)
        /\ DbCall("update_session_activity", sid, failed, failed, PyNone)
        /\ UNCHANGED <<now, uuids, remoteVars, vector_stores, documents, messages,
                       users, pc, op, rs, chatVars, docVars, trunc, orgs>>

DbUpdateChatTitle ==
    \E sid \in SessionKeys, text \in Texts, failed \in BOOLEAN :
        /\ chat_sessions' = IF failed THEN chat_sessions
                            ELSE update_chat_title(chat_sessions, sid,
                                                   truncate_text(text, chat_title_length))
        /\ DbCall("update_chat_title", sid, failed, failed, PyNone)
        /\ UNCHANGED <<now, uuids, remoteVars, vector_stores, documents, messages,
                       users, pc, op, rs, chatVars, docVars, trunc, orgs>>

DbCreateOrUpdateUser ==
    \E user \in AuthUsers, failed \in BOOLEAN :
        /\ users' = IF failed THEN users
                    ELSE create_or_update_user(users, user.identifier, user.email,
                                               user.name, now)
        /\ DbCall("create_or_update_user", user.identifier, failed, failed,
                  PyBool(~failed))
        /\ UNCHANGED <<now, uuids, remoteVars, vector_stores, documents,
                       chat_sessions, messages, pc, op, rs, chatVars, docVars, trunc, orgs>>

\* ------------------------------------------------- config: truncate_text
\* The texts handed to truncate_text: every length up to MaxTextLen and the
\* lengths around chat_title_length.
TextOfLen(n) == [i \in 1..n |-> IF i % 2 = 1 THEN "a" ELSE "b"]

TruncTexts ==
    {TextOfLen(n) : n \in (0..MaxTextLen) \cup
                          ((chat_title_length - 1)..(chat_title_length + 2))}

\* The values CHAT_TITLE_LENGTH may be configured to: the small positive
\* ones, the default and its successor.
TitleLengths == (1..MaxSmallLength) \cup {chat_title_length, chat_title_length + 1}

\* A call of truncate_text(text, max_length).
Truncate ==
    /\ \E text \in TruncTexts, max_length \in TitleLengths :
          trunc' = [text |-> text, max_length |-> max_length,
                    result |-> truncate_text(text, max_length)]
    /\ UNCHANGED <<now, faults, uuids, remoteVars, dbVars, pc, op, calls, rs,
                   chatVars, docVars, dbc, orgs>>

\* ------------------------------------- ChatDatabase per organization
\* self.db_path = f"/data/{organization_name}.db"
db_path(organization_name) ==
    <<"/", "d", "a", "t", "a", "/">> \o organization_name \o <<".", "d", "b">>

\* The components of a path: what stands between its slashes.
RECURSIVE Components(_, _)
Components(path, current) ==
    IF path = <<>> THEN <<current>>
    ELSE IF Head(path) = "/" THEN <<current>> \o Components(Tail(path), <<>>)
    ELSE Components(Tail(path), Append(current, Head(path)))

\* The file a path names when sqlite3.connect opens it: the operating
\* system skips the empty components and the components ".".
FileOf(path) ==
    SelectSeq(Components(path, <<>>), LAMBDA c : c # <<>> /\ c # <<".">>)

\* The organization names of the model (ORGANIZATION_NAME is taken from the
\* environment as it is): "a", "b" and "./a".
OrganizationNames == {<<"a">>, <<"b">>, <<".", "/", "a">>}

\* A database file after _init_db: the five tables, empty.
store0 == [vector_stores |-> <<>>, documents |-> <<>>, chat_sessions |-> <<>>,
           messages |-> <<>>, users |-> <<>>]

\* No file under /data, no ChatDatabase constructed, no call made.
orgs0 == [files |-> <<>>, opened |-> {}, last |-> <<>>, n |-> 0]

\* The content of the file of an organization's store.
StoreOf(o, organization_name) == o.files[FileOf(db_path(organization_name))]

\* ChatDatabase(organization_name): _init_db connects to db_path (which
\* creates the file when there is none) and runs CREATE TABLE IF NOT EXISTS.
OrgInit ==
    \E name \in OrganizationNames \ orgs.opened :
        /\ orgs' = [orgs EXCEPT
                       !.opened = @ \cup {name},
                       !.files = [f \in DOMAIN orgs.files \cup {FileOf(db_path(name))} |->
                                    IF f \in DOMAIN orgs.files THEN orgs.files[f]
                                    ELSE store0]]
        /\ UNCHANGED <<now, faults, uuids, remoteVars, dbVars, pc, op, calls, rs,
                       chatVars, docVars, dbc, trunc>>

\* A write of the store of one organization: the file of its db_path gets
\* the content, the other files stay.
OrgWrite(name, content) ==
    /\ name \in orgs.opened /\ orgs.n < MaxOrgCalls
    /\ orgs' = [orgs EXCEPT !.files = [f \in DOMAIN orgs.files |->
                                         IF f = FileOf(db_path(name)) THEN content
                                         ELSE orgs.files[f]],
                            !.last = name, !.n = @ + 1]
    /\ UNCHANGED <<now, faults, uuids, remoteVars, dbVars, pc, op, calls, rs,
                   chatVars, docVars, dbc, trunc>>

OrgCreateChatSession ==
    \E name \in OrganizationNames, sid \in SessionKeys :
        name \in orgs.opened /\
        LET c == StoreOf(orgs, name)
        IN  OrgWrite(name, [c EXCEPT !.chat_sessions =
                               create_chat_session(@, sid, None, None, None, None,
                                                   NewChat, now)])

OrgSaveMessage ==
    \E name \in OrganizationNames :
        name \in orgs.opened /\
        LET c == StoreOf(orgs, name)
            r == save_message(c.messages, c.chat_sessions, 1, "user", Rep("a", 2),
                              now, "none")
        IN  OrgWrite(name, [c EXCEPT !.messages = r.messages,
                                     !.chat_sessions = r.chat_sessions])

OrgAddDocument ==
    \E name \in OrganizationNames :
        name \in orgs.opened /\
        LET c == StoreOf(orgs, name)
            r == add_document(c.documents, c.vector_stores, GoodFile.name, 1, 1,
                              GoodFile.size, None, now)
        IN  OrgWrite(name, [c EXCEPT !.documents = r.documents,
                                     !.vector_stores = r.vector_stores])

OrgCreateVectorStore ==
    \E name \in OrganizationNames :
        name \in orgs.opened /\
        LET c == StoreOf(orgs, name)
        IN  OrgWrite(name, [c EXCEPT !.vector_stores =
                               create_vector_store(@, 1, now)])

\* What the reads of an organization's store return.
OrgReads(o, organization_name) ==
    LET c == StoreOf(o, organization_name)
    IN  [documents |-> list_documents(c.documents),
         sessions |-> list_chat_sessions(c.chat_sessions),
         history |-> [sid \in SessionKeys |-> get_chat_history(c.messages, sid)],
         users |-> c.users,
         index |-> get_vector_store(c.vector_stores),
         stats |-> get_stats(c.documents, c.chat_sessions, c.messages, c.users, now)]

\* ------------------------------------------------------- environment
\* The remote vector store expires or is deleted out of band.
ExpireVectorStore ==
    /\ \E i \in r_vector_stores : r_vector_stores' = r_vector_stores \ {i}
    /\ Fault
    /\ UNCHANGED <<libVars, now, uuids, r_vs_created, r_assistants, r_threads, r_files,
                   r_files_created, r_vs_files, dbVars, pc, op, calls, rs,
                   chatVars, docVars>>

Tick ==
    /\ now < MaxTime
    /\ now' = now + 1
    /\ UNCHANGED <<libVars, faults, uuids, remoteVars, dbVars, pc, op, calls, rs, chatVars, docVars>>

\* ------------------------------------------------------ specifications
Init ==
    /\ now = 0
    /\ r_vector_stores = {}
    /\ r_vs_created = 0
    /\ vector_stores = <<>>
    /\ pc = [p \in Procs |-> "idle"]
    /\ op = [p \in Procs |-> "none"]
    /\ calls = 0
    /\ faults = 0
    /\ rs = [p \in Procs |-> rs0]
    /\ uuids = 0
    /\ r_assistants = <<>> /\ r_threads = <<>>
    /\ r_files = {} /\ r_files_created = 0 /\ r_vs_files = {}
    /\ documents = <<>> /\ chat_sessions = <<>> /\ messages = <<>> /\ users = <<>>
    /\ st = [p \in Procs |-> st0]
    /\ ctx = [p \in Procs |-> ctx0]
    /\ turn = [p \in Procs |-> turn0]
    /\ up = [p \in Procs |-> up0]
    /\ del = [p \in Procs |-> del0]
    /\ val = val0
    /\ dbc = dbc0
    /\ trunc = trunc0
    /\ orgs = orgs0

NextIndex ==
    \/ \E p \in Procs : BeginResolve(p)
    \/ \E p \in Procs : Resolve(p)
    \/ \E p \in Procs : ResolveFinish(p)
    \/ ExpireVectorStore
    \/ Tick

SpecIndex == Init /\ [][NextIndex]_vars

NextChat ==
    \/ \E p \in ChatProcs : BeginStartAnonymous(p) \/ BeginStartUser(p)
    \/ \E p \in ChatProcs : Resolve(p)
    \/ \E p \in ChatProcs : StartBind(p)
    \/ \E p \in ChatProcs : Turn(p)
    \/ ExpireVectorStore
    \/ Tick

SpecChat == Init /\ [][NextChat]_vars

NextDocs ==
    \/ \E p \in ChatProcs : Upload(p)
    \/ \E p \in ChatProcs : Resolve(p)
    \/ \E p \in ChatProcs : Delete(p)
    \/ ExpireVectorStore
    \/ Tick

SpecDocs == Init /\ [][NextDocs]_vars

NextValidate == Validate

SpecValidate == Init /\ [][NextValidate]_vars

\* The Record Store called method by method, as test_database calls it.
NextStore ==
    \/ DbCreateVectorStore
    \/ DbAddDocument
    \/ DbDeleteDocument
    \/ DbCreateChatSession
    \/ DbSaveMessage
    \/ DbUpdateSessionActivity
    \/ DbUpdateChatTitle
    \/ DbCreateOrUpdateUser
    \/ Tick

SpecStore == Init /\ [][NextStore]_vars

\* validate_file_upload called between the steps of uploads, deletions
\* and resolutions.
NextPure ==
    \/ ValidateCall(PureNames, PureSizes)
    \/ NextDocs

SpecPure == Init /\ [][NextPure]_vars

NextTruncate == Truncate

SpecTruncate == Init /\ [][NextTruncate]_vars

\* Stores of several organization names in one data directory.
NextOrgs ==
    \/ OrgInit
    \/ OrgCreateChatSession
    \/ OrgSaveMessage
    \/ OrgAddDocument
    \/ OrgCreateVectorStore

SpecOrgs == Init /\ [][NextOrgs]_vars

\* Two sessions side by side, their turns interleaving.
NextStreams ==
    \/ \E p \in Procs : StartAnonymous(p)
    \/ \E p \in Procs : LongTurn(p)

SpecStreams == Init /\ [][NextStreams]_vars

\* Sessions, turns, uploads and deletions side by side.
NextService ==
    \/ \E p \in ChatProcs : BeginStartAnonymous(p) \/ BeginStartUser(p)
    \/ \E p \in ChatProcs : Resolve(p)
    \/ \E p \in ChatProcs : StartBind(p)
    \/ \E p \in ChatProcs : Turn(p)
    \/ \E p \in ChatProcs : Upload(p)
    \/ \E p \in ChatProcs : Delete(p)
    \/ ExpireVectorStore
    \/ Tick

SpecService == Init /\ [][NextService]_vars

\* ------------------------------------------------------------ claims
\* The identifier of the index recorded first in the Record Store.
FirstIndex == vector_stores[1].vector_store_id

\* C1 (as stated): a resolve_index that finds the Record Store without an
\* index makes exactly one remote create call, and every resolve_index whose
\* remote confirmation succeeds returns the identifier the first call created
\* and makes no create call.
C1_Original ==
    \A p \in Procs : pc[p] = "rs_done" =>
        /\ rs[p].cached = None => rs[p].creates = 1
        /\ rs[p].confirmed => rs[p].result = FirstIndex /\ rs[p].creates = 0

\* C1 (amended): a resolve_index that finds the Record Store without an index
\* makes exactly one remote create call and returns what it created; every
\* resolve_index whose remote confirmation succeeds returns the identifier it
\* read from the Record Store and makes no create call, and that identifier
\* is the first call's as long as no other index has been created since.
C1_Amended ==
    \A p \in Procs : pc[p] = "rs_done" =>
        /\ rs[p].cached = None => rs[p].creates = 1 /\ rs[p].result = rs[p].created
        /\ rs[p].confirmed =>
              /\ rs[p].result = rs[p].cached
              /\ rs[p].result \in StoreIds(vector_stores)
              /\ rs[p].creates = 0 /\ rs[p].created = None
              /\ r_vs_created = 1 => rs[p].result = FirstIndex

C1_Witness ==
    \E p \in Procs :
        /\ pc[p] = "rs_done" /\ rs[p].confirmed
        /\ rs[p].result = FirstIndex /\ r_vs_created = 1 /\ calls >= 2

\* C2: once a resolve_index whose confirmation failed has returned, a read of
\* the cached identifier (get_vector_store) never returns the stale
\* identifier again.
C2_StaleNeverReadAgain ==
    \A p \in Procs :
        (pc[p] = "rs_done" /\ rs[p].retrieveFailed) =>
            rs[p].cached \notin get_vector_store(vector_stores)

\* C3: a failure of the remote confirmation never leaves resolve_index as an
\* exception: the call goes on to the creation, and when it returns it
\* returns the identifier it created in that call, not the stale one.
C3_ConfirmationFailureNotPropagated ==
    \A p \in Procs :
        /\ rs[p].raisedBy # "retrieve"
        /\ rs[p].retrieveFailed =>
              /\ pc[p] \in {"rs_create", "rs_persist", "rs_done", "rs_raised"}
              /\ pc[p] = "rs_raised" => rs[p].raisedBy = "create" /\ rs[p].creates = 1
              /\ pc[p] = "rs_done" =>
                    /\ rs[p].creates = 1
                    /\ rs[p].result = rs[p].created
                    /\ rs[p].result \notin {None, rs[p].cached}

C3_Witness ==
    \E p \in Procs :
        /\ pc[p] = "rs_done" /\ rs[p].retrieveFailed
        /\ rs[p].cached # None /\ rs[p].result = rs[p].created

\* C4: when resolve_index returns an identifier it created in that call, the
\* Record Store holds that identifier.
C4_PersistedBeforeReturn ==
    \A p \in Procs :
        (pc[p] = "rs_done" /\ rs[p].created # None) =>
            rs[p].created \in StoreIds(vector_stores)

\* C5: after two concurrent resolve_index calls that both found the cache
\* empty and both created and recorded an index, every read of the cached
\* identifier returns the one recorded last.
C5_LastWriterWins ==
    \A p, q \in Procs :
        (/\ p # q
         /\ pc[p] = "rs_done" /\ pc[q] = "rs_done"
         /\ rs[p].cached = None /\ rs[q].cached = None
         /\ rs[p].created \in StoreIds(vector_stores)
         /\ rs[q].created \in StoreIds(vector_stores)) =>
            get_vector_store(vector_stores) =
                {vector_stores[Len(vector_stores)].vector_store_id}

\* C6: a handle_message_content that begins with the session, thread or
\* assistant identifier missing from the user session ends with the session
\* error, and no step of it writes to the Record Store or calls the remote
\* service.
C6_IncompleteSessionTouchesNothing ==
    [][\A p \in ChatProcs :
          /\ (/\ (ctx[p].session_id = None \/ ctx[p].thread_id = None
                      \/ ctx[p].assistant_id = None)
               /\ pc[p] = "idle" /\ op'[p] = "turn"
               /\ (pc'[p] # "idle" \/ turn'[p] # turn[p])) =>
                  /\ pc'[p] = "session_error"
                  /\ turn'[p].outcome = "session_error"
                  /\ UNCHANGED <<dbVars, remoteVars>>
          /\ (pc[p] = "session_error" /\ pc'[p] # pc[p]) =>
                  /\ pc'[p] = "idle"
                  /\ turn'[p].outcome = "session_error"
                  /\ UNCHANGED <<dbVars, remoteVars>>]_vars

C6_Witness ==
    \E p \in ChatProcs :
        /\ pc[p] = "session_error" /\ ctx[p].connected
        /\ ctx[p].thread_id = None /\ turn[p].outcome = "session_error"

\* The rows of a session, and whether a handler of the session is running.
SessionMessages(sid) == SelectSeq(messages, LAMBDA m : m.session_id = sid)
SessionBusy(sid) == \E p \in Procs : ctx[p].session_id = sid /\ pc[p] # "idle"

\* C7: whatever turns a session has seen, once its second message is
\* persisted and the turn that persisted it has ended, the title has been
\* set (it is no longer the one the session was created with).
C7_TitledAfterSecondMessage ==
    \A i \in DOMAIN chat_sessions :
        LET sid == chat_sessions[i].session_id
        IN  (Len(SessionMessages(sid)) >= 2 /\ ~SessionBusy(sid)) =>
                chat_sessions[i].title # NewChat

\* xs is ys with some elements left out.
RECURSIVE IsSubsequence(_, _)
IsSubsequence(xs, ys) ==
    IF xs = <<>> THEN TRUE
    ELSE IF ys = <<>> THEN FALSE
    ELSE IF Head(xs) = Head(ys) THEN IsSubsequence(Tail(xs), Tail(ys))
    ELSE IsSubsequence(xs, Tail(ys))

\* The contents of the user messages persisted for a session, in order.
UserContents(sid) ==
    LET rows == SelectSeq(messages, LAMBDA m : m.session_id = sid /\ m.role = "user")
    IN  [i \in DOMAIN rows |-> rows[i].content]

\* C8: the texts appended to the remote thread of a session all have their
\* user message persisted in that session, in the same order.
C8_SavedBeforeForwarded ==
    \A p \in ChatProcs :
        (ctx[p].session_id # None /\ ctx[p].thread_id # None) =>
            IsSubsequence(r_threads[ctx[p].thread_id], UserContents(ctx[p].session_id))

\* C9: every step that persists an assistant message is the step of a
\* handler whose stream has drained, and it persists the whole reply; a
\* turn that leaves the stream or the drained state by a failure or a
\* cancellation persists nothing; and no step removes a persisted message.
C9_AssistantOnlyAfterDrain ==
    [][/\ Len(messages') >= Len(messages)
       /\ SubSeq(messages', 1, Len(messages)) = messages
       /\ \A i \in DOMAIN messages' \ DOMAIN messages :
             messages'[i].role = "assistant" =>
                 \E p \in ChatProcs :
                     /\ pc[p] = "drained" /\ pc'[p] = "idle"
                     /\ messages'[i].session_id = ctx[p].session_id
                     /\ messages'[i].content = turn[p].acc
                     /\ Len(messages') = Len(messages) + 1
       /\ \A p \in ChatProcs :
             (/\ pc[p] \in {"streaming", "drained"} /\ pc'[p] = "idle"
              /\ turn'[p].failedAt \in {"stream", "update"}) =>
                 messages' = messages]_vars

C9_Witness ==
    \E p \in ChatProcs :
        /\ pc[p] = "idle" /\ turn[p].failedAt = "stream"
        /\ turn[p].outcome \in {"error", "abandoned"}
        /\ \E i \in DOMAIN messages :
              messages[i].session_id = ctx[p].session_id /\ messages[i].role = "user"
        /\ \A i \in DOMAIN messages :
              messages[i].session_id = ctx[p].session_id => messages[i].role # "assistant"

\* C10: a delete_document whose remote deletion fails (the remote service
\* holds the same files after the step as before) returns False and writes
\* nothing to the Record Store: list_documents gives what it gave before,
\* with every listed document still active, and the document counts of the
\* indexes are the same.
C10_RemoteFailureLeavesStore ==
    [][\A p \in ChatProcs :
          (del'[p] # del[p] /\ r_files' = r_files) =>
              /\ del'[p].result = FALSE
              /\ UNCHANGED dbVars
              /\ list_documents(documents') = list_documents(documents)
              /\ \A i \in DOMAIN vector_stores :
                    vector_stores'[i].document_count = vector_stores[i].document_count]_vars

C10_Witness ==
    \E p \in ChatProcs :
        /\ del[p].file_id \in r_files /\ del[p].result = FALSE /\ del[p].call > 0
        /\ \E l \in list_documents(documents) :
              \E k \in DOMAIN l : l[k].id = del[p].file_id

\* The identifiers list_documents gives, and the rows of a file identifier.
ListedIds(docs) == {l[k].id : k \in 1..get_document_count(docs), l \in list_documents(docs)}
DocumentRows(docs, f) == {i \in DOMAIN docs : docs[i].openai_file_id = f}

\* C11: after a delete_document of a recorded document has returned True,
\* list_documents does not give the document any more and its row is still
\* in the Record Store, with status deleted.
C11_DeletedAfterTrue ==
    [][\A p \in ChatProcs :
          (/\ del'[p] # del[p] /\ del'[p].result = TRUE
           /\ DocumentRows(documents, del'[p].file_id) # {}) =>
              /\ del'[p].file_id \notin ListedIds(documents')
              /\ DocumentRows(documents', del'[p].file_id) # {}
              /\ \A i \in DocumentRows(documents', del'[p].file_id) :
                    documents'[i].status = "deleted"]_vars

\* C12: delete_document returns True only when the remote deletion and the
\* soft delete in the Record Store have both taken effect: the remote
\* service does not hold the file any more and no row of it is active.
C12_TrueOnlyWhenBothSucceeded ==
    [][\A p \in ChatProcs :
          (del'[p] # del[p] /\ del'[p].result = TRUE) =>
              /\ del'[p].file_id \notin r_files'
              /\ \A i \in DOMAIN documents' :
                    documents'[i].openai_file_id = del'[p].file_id =>
                        documents'[i].status # "active"]_vars

\* C13: every report of a batch with files has successful_uploads at most
\* total_files, and success exactly when successful_uploads is positive.
C13_ReportCounts ==
    \A p \in ChatProcs :
        up[p].report.kind = "report" =>
            /\ up[p].report.total_files = Len(up[p].files)
            /\ up[p].report.total_files > 0
            /\ up[p].report.successful_uploads <= up[p].report.total_files
            /\ up[p].report.success <=> (up[p].report.successful_uploads > 0)

C13_Witness ==
    \E p \in ChatProcs :
        /\ up[p].report.kind = "report" /\ up[p].report.total_files = 2
        /\ up[p].report.successful_uploads = 1 /\ up[p].report.success
        /\ Len(up[p].errors) = 1

\* The names of the entries of a report list (uploaded_files or errors).
EntryNames(entries) == {entries[k].filename : k \in DOMAIN entries}

\* C14: a file that fails (no content, empty, failed validation, failing
\* remote upload or registration) does not end the batch: each file before
\* the loop's position has given one entry, an error string or a success
\* entry, the report is made only when every file has been processed, and a
\* file that cannot be sent is in errors and not in uploaded_files.
C14_FailureDoesNotAbortBatch ==
    \A p \in ChatProcs :
        (op[p] = "upload" /\ up[p].report.kind \in {"none", "report"}) =>
            /\ Len(up[p].uploaded_files) + Len(up[p].errors) = up[p].i - 1
            /\ up[p].report.kind = "report" => up[p].i = Len(up[p].files) + 1
            /\ \A k \in 1..(up[p].i - 1) :
                  ~UploadSendable(up[p].files[k]) =>
                      /\ up[p].files[k].name \in EntryNames(up[p].errors)
                      /\ up[p].files[k].name \notin EntryNames(up[p].uploaded_files)

\* A remote failure on the first file of a batch, the second file uploaded.
C14_Witness ==
    \E p \in ChatProcs :
        /\ up[p].report.kind = "report" /\ Len(up[p].files) = 2
        /\ Len(up[p].errors) = 1 /\ Len(up[p].uploaded_files) = 1
        /\ up[p].errors[1].reason \in {"remote_upload", "remote_register"}
        /\ up[p].errors[1].filename = up[p].files[1].name

\* C15: in an upload_documents call whose files all fail validation, no
\* step of the call changes anything in the remote service (no index is
\* created, no file is uploaded), and its report has no successful upload
\* and one error per file.
C15_InvalidBatchNoRemoteCall ==
    [][\A p \in ChatProcs :
          (/\ op[p] = "upload" /\ up[p].files # <<>>
           /\ \A k \in DOMAIN up[p].files :
                 ~validate_file_upload(up[p].files[k].name, up[p].files[k].size).ok
           /\ up'[p].call = up[p].call
           /\ (pc'[p] # pc[p] \/ rs'[p] # rs[p] \/ up'[p] # up[p])) =>
              /\ UNCHANGED remoteVars
              /\ up'[p].report.kind = "report" =>
                    /\ up'[p].report.successful_uploads = 0
                    /\ Len(up'[p].errors) = Len(up'[p].files)]_vars

\* C16: an upload_documents call with no files ends in the step it begins
\* with: it returns the "No files provided" failure (success false), calls
\* no remote service and writes nothing to the Record Store.
C16_NoFilesTouchesNothing ==
    [][\A p \in ChatProcs :
          (/\ op'[p] = "upload" /\ up'[p].files = <<>>
           /\ (pc'[p] # pc[p] \/ rs'[p] # rs[p] \/ up'[p] # up[p])) =>
              /\ up'[p].report.kind = "no_files"
              /\ up'[p].report.success = FALSE
              /\ pc[p] = "idle" /\ pc'[p] = "idle"
              /\ UNCHANGED <<remoteVars, dbVars>>]_vars

C16_Witness ==
    \E p \in ChatProcs :
        /\ op[p] = "upload" /\ up[p].call > 0 /\ up[p].files = <<>>
        /\ up[p].report.kind = "no_files" /\ vector_stores = <<>> /\ r_vs_created = 0

\* C17: for every entry of uploaded_files the Record Store holds a Document
\* whose identifier is the reported remote file id and whose size is the
\* reported byte length, bound (while the batch runs) to the index resolved
\* for the batch.
C17_UploadedHaveDocuments ==
    \A p \in ChatProcs :
        \A k \in DOMAIN up[p].uploaded_files :
            \E i \in DOMAIN documents :
                /\ documents[i].id = up[p].uploaded_files[k].id
                /\ documents[i].file_size = up[p].uploaded_files[k].size
                /\ pc[p] = "rs_done" => documents[i].vector_store_id = rs[p].result

\* C18: no upload_documents call ends with an exception that reaches its
\* caller: every failure, also one of the index resolution at the start of
\* the call, ends in a report.
C18_UploadNeverRaises ==
    \A p \in ChatProcs : up[p].report.kind # "raised"

\* C19: validate_file_upload rejects, with the oversize reason, every size
\* strictly above max_file_size_mb * 1024 * 1024 bytes, and gives the
\* oversize reason for no size equal to or below that ceiling.
C19_OversizeRejected ==
    val # val0 =>
        /\ val.file_size > max_file_size_mb * 1024 * 1024 =>
              val.verdict.ok = FALSE /\ val.verdict.reason = "size"
        /\ val.file_size <= max_file_size_mb * 1024 * 1024 =>
              val.verdict.reason # "size"

C19_Witness ==
    /\ val.file_size = max_file_size_mb * 1024 * 1024
    /\ val.verdict.ok /\ val.filename # <<>>

\* The names of FileNames whose extension (what follows the last dot, in
\* lower case; nothing when the name has no dot) is in the allow-list:
\* r.PDF, b.txt, n.md, a.b.PDF, .md, d.Txt, t.docx.
NamesOfAllowedType ==
    {<<"r", ".", "P", "D", "F">>, <<"b", ".", "t", "x", "t">>, <<"n", ".", "m", "d">>,
     <<"a", ".", "b", ".", "P", "D", "F">>, <<".", "m", "d">>,
     <<"d", ".", "T", "x", "t">>, <<"t", ".", "d", "o", "c", "x">>}

\* C20 (as stated): a name whose extension is outside the allow-list is
\* rejected with the disallowed-type reason whatever its size; a name whose
\* extension is in the allow-list, with a size within the ceiling, is
\* accepted.
C20_Original ==
    val # val0 =>
        /\ val.filename \notin NamesOfAllowedType =>
              val.verdict.ok = FALSE /\ val.verdict.reason = "type"
        /\ (val.filename \in NamesOfAllowedType /\ val.file_size <= MaxBytes) =>
              val.verdict.ok

\* C20 (amended): a name whose extension is outside the allow-list is
\* rejected whatever its size, with the disallowed-type reason when the size
\* is within the ceiling and with the oversize reason when it is above (the
\* size is examined first); a name whose extension is in the allow-list,
\* with a size within the ceiling, is accepted.
C20_Amended ==
    val # val0 =>
        /\ val.filename \notin NamesOfAllowedType =>
              /\ val.verdict.ok = FALSE
              /\ val.verdict.reason = IF val.file_size <= MaxBytes THEN "type" ELSE "size"
        /\ (val.filename \in NamesOfAllowedType /\ val.file_size <= MaxBytes) =>
              val.verdict.ok /\ val.verdict.reason = "valid"

C20_Witness ==
    /\ val.filename = <<"x", ".", "p", "d", "f", ".", "e", "x", "e">>
    /\ val.file_size = 5 /\ val.verdict.reason = "type"

NewSessionRows ==
    {i \in DOMAIN chat_sessions' :
        \A j \in DOMAIN chat_sessions : chat_sessions[j] # chat_sessions'[i]}

\* C22: a start that completes (it retains a session context for its
\* caller) leaves exactly one new ChatSession row, which binds the user, the
\* thread just opened, the assistant just bound to the resolved index, and
\* that index, with title "New Chat" and status active; the retained context
\* carries the same identifiers.
C22_StartWritesOneSession ==
    [][\A p \in ChatProcs :
          (ctx'[p] # ctx[p] /\ ctx'[p].session_id # None) =>
             /\ Cardinality(NewSessionRows) = 1
             /\ \A i \in NewSessionRows :
                   LET row == chat_sessions'[i]
                   IN  /\ row.session_id = ctx'[p].session_id
                       /\ row.user_id = ctx'[p].user_id
                       /\ row.user_id = st[p].user_id
                       /\ row.thread_id = ctx'[p].thread_id
                       /\ row.thread_id = Len(r_threads')
                       /\ row.assistant_id = ctx'[p].assistant_id
                       /\ row.assistant_id = Len(r_assistants')
                       /\ row.vector_store_id = ctx'[p].vector_store_id
                       /\ row.vector_store_id = rs[p].result
                       /\ r_assistants'[row.assistant_id] = row.vector_store_id
                       /\ row.title = NewChat
                       /\ row.status = "active"]_vars

\* The sessions table after a touch of session sid at the present second,
\* and nothing else.
TouchedOnly(sid) ==
    /\ DOMAIN chat_sessions' = DOMAIN chat_sessions
    /\ \A i \in DOMAIN chat_sessions :
          chat_sessions'[i] =
             IF chat_sessions[i].session_id = sid
             THEN [chat_sessions[i] EXCEPT !.last_activity = now]
             ELSE chat_sessions[i]

\* The messages table after the insert of one message of session sid, and
\* nothing else.
InsertedOnly(sid) ==
    /\ Len(messages') = Len(messages) + 1
    /\ SubSeq(messages', 1, Len(messages)) = messages
    /\ messages'[Len(messages')].session_id = sid
    /\ messages'[Len(messages')].timestamp = now

\* C23: save_message is atomic per call: a call (also one under which the
\* storage fails at the insert, at the touch or at the commit) either
\* stores its message and touches its session, or does neither.
C23_SaveMessageAtomic ==
    [][(dbc'.n # dbc.n /\ dbc'.method = "save_message") =>
          \/ InsertedOnly(dbc'.key) /\ TouchedOnly(dbc'.key)
          \/ messages' = messages /\ chat_sessions' = chat_sessions]_vars

\* A save failed under the storage, and the last call was a save that went
\* through for a session created a second earlier.
C23_Witness ==
    /\ [method |-> "save_message", failed |-> TRUE] \in dbc.called
    /\ dbc.method = "save_message" /\ ~dbc.failed
    /\ \E i \in DOMAIN chat_sessions :
          /\ chat_sessions[i].session_id = dbc.key
          /\ chat_sessions[i].created_at < chat_sessions[i].last_activity
    /\ \E i \in DOMAIN messages : messages[i].session_id = dbc.key

\* C24: every write of the Record Store under which the storage fails raises
\* nothing past its caller, leaves the stored data as it was, and hands its
\* caller a false or empty result.
C24_FailedWriteReportsFalse ==
    [][(dbc'.n # dbc.n /\ dbc'.failed) =>
          /\ ~dbc'.raised
          /\ UNCHANGED dbVars
          /\ ~dbc'.result.truthy]_vars

Stats == get_stats(documents, chat_sessions, messages, users, now)

\* get_stats reports the active sessions, the persisted messages and the
\* active documents, the last as get_document_count() and as the length of
\* list_documents() do.
StatsCountRows ==
    /\ Stats.sessions =
          Cardinality({i \in DOMAIN chat_sessions : chat_sessions[i].status = "active"})
    /\ Stats.messages = Cardinality(DOMAIN messages)
    /\ Stats.documents =
          Cardinality({i \in DOMAIN documents : documents[i].status = "active"})
    /\ Stats.documents = get_document_count(documents)
    /\ \A l \in list_documents(documents) : Stats.documents = Len(l)

\* Method m was called, and (went = TRUE) its write took effect.
Called(m, went) ==
    IF went THEN [method |-> m, failed |-> FALSE] \in dbc.called
    ELSE \E f \in BOOLEAN : [method |-> m, failed |-> f] \in dbc.called

ActiveIndexRows == {i \in DOMAIN vector_stores : vector_stores[i].status = "active"}

\* C27: in every state at most one index record of the organization has
\* status active; an index that was replaced no longer counts as active.
C27_AtMostOneActiveIndex == Cardinality(ActiveIndexRows) <= 1

\* The rows of documents after the step that were not there before it.
NewDocumentRows == DOMAIN documents' \ DOMAIN documents

\* The rows of chat_sessions after the step whose session was not recorded
\* before it.
InsertedSessionRows ==
    {i \in DOMAIN chat_sessions' :
        \A j \in DOMAIN chat_sessions :
            chat_sessions[j].session_id # chat_sessions'[i].session_id}

\* Caller p holds the result id of a resolution of its own that confirmed
\* the recorded index by a retrieve, or created the index.
ResolvedBy(p, id) ==
    /\ pc[p] = "rs_done" /\ op[p] \in {"start", "upload"}
    /\ id = rs[p].result /\ id # None
    /\ \/ rs[p].confirmed /\ ~rs[p].retrieveFailed /\ id = rs[p].cached
       \/ rs[p].created # None /\ id = rs[p].created
    /\ rs[p].retrieveFailed => id # rs[p].cached

\* C28: the index identifier that an upload stores in a Document and a
\* start in a ChatSession is the one the resolution of that same operation
\* confirmed to exist or created; it is never an identifier whose retrieve
\* failed in that resolution.
C28_StoredIndexWasResolved ==
    [][/\ \A i \in NewDocumentRows :
             \E p \in ChatProcs : ResolvedBy(p, documents'[i].vector_store_id)
       /\ \A i \in InsertedSessionRows :
             \E p \in ChatProcs : ResolvedBy(p, chat_sessions'[i].vector_store_id)
       /\ \A i \in DOMAIN chat_sessions' \ InsertedSessionRows :
             \E j \in DOMAIN chat_sessions :
                 /\ chat_sessions[j].session_id = chat_sessions'[i].session_id
                 /\ chat_sessions[j].vector_store_id = chat_sessions'[i].vector_store_id
       /\ \A i \in DOMAIN documents :
             documents'[i].vector_store_id = documents[i].vector_store_id]_vars

\* A session was written with the first index, which then vanished, and a
\* document was written with the index a new resolution created.
C28_Witness ==
    /\ \E i \in DOMAIN chat_sessions :
          /\ chat_sessions[i].vector_store_id # None
          /\ chat_sessions[i].vector_store_id \notin r_vector_stores
    /\ \E i \in DOMAIN documents :
          /\ documents[i].vector_store_id \in r_vector_stores
          /\ \E j \in DOMAIN chat_sessions :
                chat_sessions[j].vector_store_id < documents[i].vector_store_id

\* C29: the title persisted for a session is derived from the session's
\* first user message: a title other than the one the session was created
\* with equals the content of the first persisted user message of the
\* session, truncated to chat_title_length (with the ellipsis marker exactly
\* when the text was longer).
C29_TitleOfFirstUserMessage ==
    \A i \in DOMAIN chat_sessions :
        chat_sessions[i].title # NewChat =>
            /\ UserContents(chat_sessions[i].session_id) # <<>>
            /\ chat_sessions[i].title =
                  truncate_text(UserContents(chat_sessions[i].session_id)[1],
                                chat_title_length)

\* text ends in the ellipsis marker.
EndsInEllipsis(text) ==
    /\ Len(text) >= Len(Ellipsis)
    /\ SubSeq(text, Len(text) - Len(Ellipsis) + 1, Len(text)) = Ellipsis

\* C30: truncate_text(text, max_length) returns text unchanged when its
\* length is at most max_length and otherwise a string ending in the
\* ellipsis marker; for every text and every positive max_length the result
\* is never longer than max_length.
C30_TruncateWithinLength ==
    trunc # trunc0 =>
        /\ Len(trunc.text) <= trunc.max_length => trunc.result = trunc.text
        /\ Len(trunc.text) > trunc.max_length => EndsInEllipsis(trunc.result)
        /\ Len(trunc.result) <= trunc.max_length

\* The fragments of a stream, joined in their order.
RECURSIVE Flatten(_)
Flatten(fragments) ==
    IF fragments = <<>> THEN <<>> ELSE Head(fragments) \o Flatten(Tail(fragments))

\* C31: the assistant message persisted for a turn has as content exactly
\* the fragments relayed to the caller from that turn's stream, joined in
\* the order of their arrival, also when turns of other sessions run at the
\* same time; no other step persists an assistant message.
C31_ReplyIsRelayedFragments ==
    [][Len(messages') > Len(messages) =>
          LET m == messages'[Len(messages')]
          IN  /\ Len(messages') = Len(messages) + 1
              /\ m.role = "assistant" =>
                    \E p \in Procs :
                        /\ pc[p] = "drained" /\ pc'[p] = "idle"
                        /\ m.session_id = ctx[p].session_id
                        /\ m.content = Flatten(turn[p].relayed)
              /\ m.role = "user" =>
                    \E p \in Procs :
                        /\ pc[p] = "idle" /\ m.session_id = ctx[p].session_id
                        /\ turn'[p].relayed = <<>> /\ turn'[p].acc = <<>>]_vars

\* A reply of two fragments is persisted in one session while the turn of
\* another session is in the middle of its stream.
C31_Witness ==
    \E p, q \in Procs :
        /\ p # q /\ pc[q] = "streaming" /\ Len(turn[q].relayed) = 1
        /\ \E i \in DOMAIN messages :
              /\ messages[i].session_id = ctx[p].session_id
              /\ messages[i].role = "assistant"
              /\ Len(messages[i].content) > 2
              /\ messages[i].content # turn[q].acc

C33_RowsAreKept ==
    [][/\ \A i \in DOMAIN documents :
             /\ i \in DOMAIN documents'
             /\ [documents'[i] EXCEPT !.status = documents[i].status] = documents[i]
             /\ documents'[i].status # documents[i].status =>
                   (documents[i].status = "active" /\ documents'[i].status = "deleted")
       /\ {documents[i].id : i \in DOMAIN documents}
             \subseteq {documents'[i].id : i \in DOMAIN documents'}
       /\ \A i \in DOMAIN messages :
             i \in DOMAIN messages' /\ messages'[i] = messages[i]]_vars

\* A message is persisted, a document was deleted, and the last call tried
\* to add a document of the deleted document's identifier again.
C33_Witness ==
    /\ messages # <<>>
    /\ dbc.method = "add_document" /\ dbc.failed
    /\ \E i \in DOMAIN documents :
          documents[i].id = dbc.key /\ documents[i].status = "deleted"

\* File f is of a size above zero and within the ceiling, and of a name
\* whose extension is in the allow-list.
PassesValidation(f) ==
    /\ f.size > 0 /\ f.size <= max_file_size_mb * 1024 * 1024
    /\ f.name \in NamesOfAllowedType

\* C34: every Document row created by upload has a size above zero and
\* within the ceiling and a filename of an allowed extension, and a step
\* that creates a remote file or a Document row does so for the file the
\* batch is at, which passes validation.
C34_DocumentsPassedValidation ==
    [][/\ \A i \in DOMAIN documents' :
             PassesValidation([name |-> documents'[i].filename,
                               size |-> documents'[i].file_size])
       /\ (r_files_created' # r_files_created \/ Len(documents') # Len(documents)) =>
             \E p \in ChatProcs :
                /\ op[p] = "upload" /\ up[p].i <= Len(up[p].files)
                /\ up'[p].i = up[p].i + 1
                /\ PassesValidation(UploadCurrent(p))
                /\ \A i \in NewDocumentRows :
                      /\ documents'[i].filename = UploadCurrent(p).name
                      /\ documents'[i].file_size = UploadCurrent(p).size]_vars

\* A batch is done whose first file was turned away by validation and whose
\* second file has its Document row.
C34_Witness ==
    \E p \in ChatProcs :
        /\ up[p].report.kind = "report"
        /\ \E e \in DOMAIN up[p].errors : up[p].errors[e].reason = "type"
        /\ \E i \in DOMAIN documents, u \in DOMAIN up[p].uploaded_files :
              documents[i].id = up[p].uploaded_files[u].id

\* C35: the stores of two different organization names use disjoint
\* storage: a write of the store of one name changes the result of no read
\* of the store of another name.
C35_OrganizationsIsolated ==
    [][orgs'.n # orgs.n =>
          \A other \in orgs.opened :
              other # orgs'.last => OrgReads(orgs', other) = OrgReads(orgs, other)]_vars

\* The active Document rows bound to an index.
ActiveDocumentsOf(vector_store_id) ==
    {i \in DOMAIN documents :
        documents[i].vector_store_id = vector_store_id /\ documents[i].status = "active"}

\* C36: the document_count stored for an index equals the number of active
\* Document rows bound to that index and is never negative, whatever
\* add_document and delete_document calls were made.
C36_DocumentCountIsActiveRows ==
    \A i \in DOMAIN vector_stores :
        /\ vector_stores[i].document_count >= 0
        /\ vector_stores[i].document_count =
               Cardinality(ActiveDocumentsOf(vector_stores[i].vector_store_id))

\* C37: every remote file an upload_documents iteration creates is, when the
\* iteration is over, registered in an index and recorded as a Document of
\* the Record Store, also when the registration or the record write fails.
C37_CreatedFilesAreKnown ==
    [][\A p \in ChatProcs :
          (op[p] = "upload" /\ up'[p].i = up[p].i + 1) =>
              \A f \in r_files' \ r_files :
                  /\ \E v \in r_vector_stores' : <<v, f>> \in r_vs_files'
                  /\ DocumentRows(documents', f) # {}]_vars

\* The step appends one entry for the file at the loop's position to list
\* `grown` of the batch and leaves list `kept` as it was.
OneOutcome(p, grown, kept) ==
    /\ Len(grown[2]) = Len(grown[1]) + 1
    /\ SubSeq(grown[2], 1, Len(grown[1])) = grown[1]
    /\ grown[2][Len(grown[2])].filename = UploadCurrent(p).name
    /\ kept[2] = kept[1]

\* C38: in a batch with files whose index resolution succeeded, each file
\* gives exactly one outcome: the iteration for a file appends one entry for
\* it either to uploaded_files or to errors, never to both and never to
\* neither, and the report has successful_uploads + len(errors) = total_files.
C38_OneOutcomePerFile ==
    [][\A p \in ChatProcs :
          (op[p] = "upload" /\ pc[p] = "rs_done" /\ up'[p] # up[p]) =>
              /\ up'[p].i # up[p].i =>
                    /\ up'[p].i = up[p].i + 1
                    /\ \/ OneOutcome(p, <<up[p].uploaded_files, up'[p].uploaded_files>>,
                                     <<up[p].errors, up'[p].errors>>)
                       \/ OneOutcome(p, <<up[p].errors, up'[p].errors>>,
                                     <<up[p].uploaded_files, up'[p].uploaded_files>>)
              /\ up'[p].i = up[p].i =>
                    /\ up'[p].report.kind = "report"
                    /\ up'[p].files # <<>>
                    /\ up'[p].report.successful_uploads + Len(up'[p].errors)
                           = up'[p].report.total_files
                    /\ up'[p].report.successful_uploads = Len(up'[p].uploaded_files)
                    /\ up'[p].errors = up[p].errors
                    /\ up'[p].uploaded_files = up[p].uploaded_files]_vars

\* A batch of two files of the same name, the first uploaded and the second
\* failed, has been reported.
C38_Witness ==
    \E p \in ChatProcs :
        /\ up[p].report.kind = "report" /\ up[p].files = <<GoodFile, GoodFile>>
        /\ Len(up[p].uploaded_files) = 1 /\ Len(up[p].errors) = 1
        /\ up[p].uploaded_files[1].filename = up[p].errors[1].filename

\* C39: every persisted Message references a ChatSession row of the Record
\* Store: whatever start and handle_turn operations ran, also after a start
\* whose session write failed, no message is stored under a session
\* identifier without a session row.
C39_MessagesHaveSession ==
    \A m \in DOMAIN messages :
        \E s \in DOMAIN chat_sessions :
            chat_sessions[s].session_id = messages[m].session_id

\* The user session of p holds none of the identifiers a start stores.
NoContext(c) ==
    /\ c.session_id = None /\ c.user_id = None /\ c.thread_id = None
    /\ c.assistant_id = None /\ c.vector_store_id = None

\* C40: a start that fails at a remote step (index resolution, assistant
\* binding, thread creation: the start returns without a thread having been
\* created) persists no ChatSession row and retains no
\* session context; the context stays empty until the next start, and every
\* handle_turn step taken with it ends in the session-integrity error,
\* writes nothing to the Record Store and calls no remote service.
C40_FailedStartLeavesNoSession ==
    [][\A p \in ChatProcs :
          /\ (/\ op[p] = "start" /\ pc[p] # "idle" /\ pc'[p] = "idle"
              /\ r_threads' = r_threads) =>
                /\ chat_sessions' = chat_sessions
                /\ NoContext(ctx'[p])
          /\ (NoContext(ctx[p]) /\ op'[p] # "start") => ctx'[p] = ctx[p]
          /\ (/\ ctx[p].connected /\ NoContext(ctx[p]) /\ op'[p] = "turn"
              /\ (pc'[p] # pc[p] \/ turn'[p] # turn[p])) =>
                /\ UNCHANGED <<remoteVars, dbVars>>
                /\ turn'[p].outcome = "session_error"
                /\ pc'[p] \in {"session_error", "idle"}]_vars

\* A start has failed at the creation of the thread (an assistant exists, no
\* thread and no session row do) and a turn after it has ended with the
\* session-integrity error.
C40_Witness ==
    \E p \in ChatProcs :
        /\ op[p] = "turn" /\ pc[p] = "idle" /\ turn[p].outcome = "session_error"
        /\ NoContext(ctx[p]) /\ ctx[p].connected
        /\ Len(r_assistants) = 1 /\ r_threads = <<>> /\ chat_sessions = <<>>

====
